---- MODULE Spec2Model ----
(***************************************************************************)
(* cluster-reflector: the discovery-and-cache engine (package discovery),  *)
(* the HTTP server task (package server) and runServer (package main).     *)
(*                                                                         *)
(* Go strings that the code splits, trims or searches are modelled as      *)
(* sequences of one-character strings, so that strings.Split,              *)
(* strings.TrimSpace and strings.Contains are computed, not assumed.       *)
(* Time is an integer clock; a time.Duration is a number of clock units.   *)
(***************************************************************************)
EXTENDS Integers, Sequences, FiniteSets, TLC

\* ------------------------------------------------------------------------
\* Bounds of the model
\* ------------------------------------------------------------------------

\* The clock runs from 0 to MaxTime.
MaxTime == 5

\* Calls of Stop() made through the exposed interface, besides runServer's own.
MaxStopCalls == 1

\* HTTP clients issuing requests concurrently: those that GET /cluster-info
\* and those that GET /healthz.
Fetchers == {"f1"}
Checkers == {"h1"}
Clients == Fetchers \cup Checkers

\* ------------------------------------------------------------------------
\* Strings
\* ------------------------------------------------------------------------

EmptyStr == << >>

S_latest == <<"l","a","t","e","s","t">>
S_unknown == <<"u","n","k","n","o","w","n">>
S_controlplane == <<"c","o","n","t","r","o","l","-","p","l","a","n","e">>
S_master == <<"m","a","s","t","e","r">>

\* strings.Split(s, sep) for a one-character separator: the pieces between
\* the separators, empty pieces kept; Split("", sep) is one empty piece.
RECURSIVE SplitFrom(_, _, _, _)
SplitFrom(s, sep, i, cur) ==
    IF i > Len(s) THEN <<cur>>
    ELSE IF s[i] = sep THEN <<cur>> \o SplitFrom(s, sep, i + 1, EmptyStr)
    ELSE SplitFrom(s, sep, i + 1, Append(cur, s[i]))

Split(s, sep) == SplitFrom(s, sep, 1, EmptyStr)

\* strings.Contains(s, sub)
Contains(s, sub) ==
    \E i \in 1..(Len(s) - Len(sub) + 1) :
        \A j \in 1..Len(sub) : s[i + j - 1] = sub[j]

IsSpace(ch) == ch \in {" ", "\t", "\n", "\r"}

\* strings.TrimSpace(s): leading and trailing white space removed.
RECURSIVE TrimLeft(_)
TrimLeft(s) ==
    IF Len(s) > 0 /\ IsSpace(s[1]) THEN TrimLeft(Tail(s)) ELSE s

RECURSIVE TrimRight(_)
TrimRight(s) ==
    IF Len(s) > 0 /\ IsSpace(s[Len(s)])
    THEN TrimRight(SubSeq(s, 1, Len(s) - 1))
    ELSE s

TrimSpace(s) == TrimRight(TrimLeft(s))

\* ------------------------------------------------------------------------
\* Node discovery
\* ------------------------------------------------------------------------

\* A corev1.Node as the list call returns it:
\*   [Name, Labels (the set of label keys present), Taints (a sequence of
\*    [Key, Effect]), Addresses (a sequence of [Type, Address]),
\*    KubeletVersion]

RECURSIVE FirstInternalIP(_, _)
FirstInternalIP(addrs, i) ==
    IF i > Len(addrs) THEN ""
    ELSE IF addrs[i].Type = "InternalIP" THEN addrs[i].Address
    ELSE FirstInternalIP(addrs, i + 1)

getNodeInternalIP(node) == FirstInternalIP(node.Addresses, 1)

\* getNodeRole as it would be if it did not look at the taint's effect: C20
\* tells the two apart.
getNodeRole_AnyEffect(node) ==
    IF "node-role.kubernetes.io/control-plane" \in node.Labels
    THEN "control-plane"
    ELSE IF "node-role.kubernetes.io/master" \in node.Labels
    THEN "control-plane"
    ELSE IF \E i \in 1..Len(node.Taints) :
              \/ Contains(node.Taints[i].Key, S_controlplane)
              \/ Contains(node.Taints[i].Key, S_master)
    THEN "control-plane"
    ELSE "worker"

\* getNodeRole: the marker labels first, then the taints.
getNodeRole(node) ==
    IF "node-role.kubernetes.io/control-plane" \in node.Labels
    THEN "control-plane"
    ELSE IF "node-role.kubernetes.io/master" \in node.Labels
    THEN "control-plane"
    ELSE IF \E i \in 1..Len(node.Taints) :
              /\ \/ Contains(node.Taints[i].Key, S_controlplane)
                 \/ Contains(node.Taints[i].Key, S_master)
              /\ node.Taints[i].Effect = "NoSchedule"
    THEN "control-plane"
    ELSE "worker"

\* The []types.Node that discoverNodes builds from a successful list call.
discoverNodes(items) ==
    [i \in 1..Len(items) |->
        [Name    |-> items[i].Name,
         IP      |-> getNodeInternalIP(items[i]),
         Role    |-> getNodeRole(items[i]),
         Version |-> items[i].KubeletVersion]]

\* ------------------------------------------------------------------------
\* App discovery: the fold into the name -> App map
\* ------------------------------------------------------------------------

\* appMap is a function from app names to [Name, Version, Variants].
EmptyAppMap == [n \in {} |-> 0]

MapPut(m, k, v) == [n \in (DOMAIN m) \cup {k} |-> IF n = k THEN v ELSE m[n]]

InSeq(x, seq) == \E i \in 1..Len(seq) : seq[i] = x

\* An untyped value of an unstructured object is [kind, val]; kind is "map",
\* "string" or "other".  obj["k"].(T) succeeds iff k is present with kind T.
HasTyped(m, k, kind) == k \in DOMAIN m /\ m[k].kind = kind

\* processAppVersionFromUnstructured as it would be if it left the version of
\* an existing entry alone: C15 tells the two apart.
processAppVersionFromUnstructured_KeepsVersion(obj, appMap) ==
    IF ~HasTyped(obj, "spec", "map") THEN appMap
    ELSE LET spec == obj["spec"].val IN
         IF ~HasTyped(spec, "name", "string") THEN appMap
         ELSE IF ~HasTyped(spec, "version", "string") THEN appMap
         ELSE LET name    == spec["name"].val
                  version == spec["version"].val
              IN IF name \in DOMAIN appMap
                 THEN LET existing == appMap[name]
                          variants == IF InSeq(version, existing.Variants)
                                      THEN existing.Variants
                                      ELSE Append(existing.Variants, version)
                      IN MapPut(appMap, name,
                                [Name     |-> existing.Name,
                                 Version  |-> existing.Version,
                                 Variants |-> variants])
                 ELSE MapPut(appMap, name,
                             [Name     |-> name,
                              Version  |-> version,
                              Variants |-> <<version>>])

\* processAppVersionFromUnstructured as it would be without the search of
\* the variants: C28 tells the two apart.
processAppVersionFromUnstructured_AlwaysAppends(obj, appMap) ==
    IF ~HasTyped(obj, "spec", "map") THEN appMap
    ELSE LET spec == obj["spec"].val IN
         IF ~HasTyped(spec, "name", "string") THEN appMap
         ELSE IF ~HasTyped(spec, "version", "string") THEN appMap
         ELSE LET name    == spec["name"].val
                  version == spec["version"].val
              IN IF name \in DOMAIN appMap
                 THEN MapPut(appMap, name,
                             [Name     |-> appMap[name].Name,
                              Version  |-> version,
                              Variants |-> Append(appMap[name].Variants, version)])
                 ELSE MapPut(appMap, name,
                             [Name     |-> name,
                              Version  |-> version,
                              Variants |-> <<version>>])

\* processAppVersionFromUnstructured as it would be if an object without a
\* string version were folded with the version "unknown", as a workload
\* without version label is: C30 tells the two apart.
processAppVersionFromUnstructured_DefaultsVersion(obj, appMap) ==
    IF ~HasTyped(obj, "spec", "map") THEN appMap
    ELSE LET spec == obj["spec"].val IN
         IF ~HasTyped(spec, "name", "string") THEN appMap
         ELSE LET name    == spec["name"].val
                  version == IF HasTyped(spec, "version", "string")
                             THEN spec["version"].val ELSE S_unknown
              IN IF name \in DOMAIN appMap
                 THEN LET existing == appMap[name]
                          variants == IF InSeq(version, existing.Variants)
                                      THEN existing.Variants
                                      ELSE Append(existing.Variants, version)
                      IN MapPut(appMap, name,
                                [Name     |-> existing.Name,
                                 Version  |-> version,
                                 Variants |-> variants])
                 ELSE MapPut(appMap, name,
                             [Name     |-> name,
                              Version  |-> version,
                              Variants |-> <<version>>])

\* processAppVersionFromUnstructured as it would be if it set the version
\* of an existing entry without adding it to the variants: C36 tells the
\* two apart.
processAppVersionFromUnstructured_SetsVersionOnly(obj, appMap) ==
    IF ~HasTyped(obj, "spec", "map") THEN appMap
    ELSE LET spec == obj["spec"].val IN
         IF ~HasTyped(spec, "name", "string") THEN appMap
         ELSE IF ~HasTyped(spec, "version", "string") THEN appMap
         ELSE LET name    == spec["name"].val
                  version == spec["version"].val
              IN IF name \in DOMAIN appMap
                 THEN MapPut(appMap, name,
                             [Name     |-> appMap[name].Name,
                              Version  |-> version,
                              Variants |-> appMap[name].Variants])
                 ELSE MapPut(appMap, name,
                             [Name     |-> name,
                              Version  |-> version,
                              Variants |-> <<version>>])

\* processAppVersionFromUnstructured: the fold of one AppVersion object; an
\* object that fails a type assertion is left out.
processAppVersionFromUnstructured(obj, appMap) ==
    IF ~HasTyped(obj, "spec", "map") THEN appMap
    ELSE LET spec == obj["spec"].val IN
         IF ~HasTyped(spec, "name", "string") THEN appMap
         ELSE IF ~HasTyped(spec, "version", "string") THEN appMap
         ELSE LET name    == spec["name"].val
                  version == spec["version"].val
              IN IF name \in DOMAIN appMap
                 THEN LET existing == appMap[name]
                          variants == IF InSeq(version, existing.Variants)
                                      THEN existing.Variants
                                      ELSE Append(existing.Variants, version)
                      IN MapPut(appMap, name,
                                [Name     |-> existing.Name,
                                 Version  |-> version,
                                 Variants |-> variants])
                 ELSE MapPut(appMap, name,
                             [Name     |-> name,
                              Version  |-> version,
                              Variants |-> <<version>>])

\* parseImageTag as it would be without the removal of the "@" suffix: C22
\* tells the two apart.
parseImageTag_KeepsDigest(image) ==
    LET parts     == Split(image, "/")
        imageName == parts[Len(parts)]
        nameTag   == Split(imageName, ":")
    IN IF Len(nameTag) < 2 THEN <<nameTag[1], S_latest>>
       ELSE <<nameTag[1], nameTag[2]>>

\* parseImageTag returns <<name, version>>.
parseImageTag(image) ==
    LET parts     == Split(image, "/")
        imageName == parts[Len(parts)]
        nameTag   == Split(imageName, ":")
    IN IF Len(nameTag) < 2 THEN <<nameTag[1], S_latest>>
       ELSE LET name == nameTag[1]
                tag  == nameTag[2]
            IN IF Contains(tag, <<"@">>)
               THEN <<name, Split(tag, "@")[1]>>
               ELSE <<name, tag>>

\* labels["k"] of a Go map[string]string: the empty string when k is absent.
Label(labels, k) == IF k \in DOMAIN labels THEN labels[k] ELSE EmptyStr

\* processWorkloadLabels as it would be if the image were parsed whenever
\* there is a container, name label or not: C29 tells the two apart.
processWorkloadLabels_ImageFirst(labels, containers, appMap) ==
    LET labelName    == Label(labels, "app.kubernetes.io/name")
        labelVersion == Label(labels, "app.kubernetes.io/version")
        fromImage    == Len(containers) > 0
        parsed       == parseImageTag(containers[1].Image)
        appName      == IF fromImage THEN parsed[1] ELSE labelName
        extracted    == IF fromImage THEN parsed[2] ELSE labelVersion
        appVersion   == IF extracted = EmptyStr THEN S_unknown ELSE extracted
    IN IF appName = EmptyStr THEN appMap
       ELSE IF appName \in DOMAIN appMap
       THEN LET existing == appMap[appName] IN
            IF InSeq(appVersion, existing.Variants) THEN appMap
            ELSE MapPut(appMap, appName,
                        [Name     |-> existing.Name,
                         Version  |-> existing.Version,
                         Variants |-> Append(existing.Variants, appVersion)])
       ELSE MapPut(appMap, appName,
                   [Name     |-> appName,
                    Version  |-> appVersion,
                    Variants |-> <<appVersion>>])

\* processWorkloadLabels as it would be without the search of the variants:
\* C14 tells the two apart.
processWorkloadLabels_AlwaysAppends(labels, containers, appMap) ==
    LET labelName    == Label(labels, "app.kubernetes.io/name")
        labelVersion == Label(labels, "app.kubernetes.io/version")
        fromImage    == labelName = EmptyStr /\ Len(containers) > 0
        parsed       == parseImageTag(containers[1].Image)
        appName      == IF fromImage THEN parsed[1] ELSE labelName
        extracted    == IF fromImage THEN parsed[2] ELSE labelVersion
        appVersion   == IF extracted = EmptyStr THEN S_unknown ELSE extracted
    IN IF appName = EmptyStr THEN appMap
       ELSE IF appName \in DOMAIN appMap
       THEN LET existing == appMap[appName] IN
            MapPut(appMap, appName,
                   [Name     |-> existing.Name,
                    Version  |-> existing.Version,
                    Variants |-> Append(existing.Variants, appVersion)])
       ELSE MapPut(appMap, appName,
                   [Name     |-> appName,
                    Version  |-> appVersion,
                    Variants |-> <<appVersion>>])

\* A workload is [Labels, Containers]; Containers is a sequence of [Image].
\* processWorkloadLabels as it would be if it gave an existing entry the
\* workload's version: C16 tells the two apart.
processWorkloadLabels_OverwritesVersion(labels, containers, appMap) ==
    LET labelName    == Label(labels, "app.kubernetes.io/name")
        labelVersion == Label(labels, "app.kubernetes.io/version")
        fromImage    == labelName = EmptyStr /\ Len(containers) > 0
        parsed       == parseImageTag(containers[1].Image)
        appName      == IF fromImage THEN parsed[1] ELSE labelName
        extracted    == IF fromImage THEN parsed[2] ELSE labelVersion
        appVersion   == IF extracted = EmptyStr THEN S_unknown ELSE extracted
    IN IF appName = EmptyStr THEN appMap
       ELSE IF appName \in DOMAIN appMap
       THEN LET existing == appMap[appName] IN
            MapPut(appMap, appName,
                   [Name     |-> existing.Name,
                    Version  |-> appVersion,
                    Variants |-> IF InSeq(appVersion, existing.Variants)
                                 THEN existing.Variants
                                 ELSE Append(existing.Variants, appVersion)])
       ELSE MapPut(appMap, appName,
                   [Name     |-> appName,
                    Version  |-> appVersion,
                    Variants |-> <<appVersion>>])

\* processWorkloadLabels: the fold of one workload.
processWorkloadLabels(labels, containers, appMap) ==
    LET labelName    == Label(labels, "app.kubernetes.io/name")
        labelVersion == Label(labels, "app.kubernetes.io/version")
        fromImage    == labelName = EmptyStr /\ Len(containers) > 0
        parsed       == parseImageTag(containers[1].Image)
        appName      == IF fromImage THEN parsed[1] ELSE labelName
        extracted    == IF fromImage THEN parsed[2] ELSE labelVersion
        appVersion   == IF extracted = EmptyStr THEN S_unknown ELSE extracted
    IN IF appName = EmptyStr THEN appMap
       ELSE IF appName \in DOMAIN appMap
       THEN LET existing == appMap[appName] IN
            IF InSeq(appVersion, existing.Variants) THEN appMap
            ELSE MapPut(appMap, appName,
                        [Name     |-> existing.Name,
                         Version  |-> existing.Version,
                         Variants |-> Append(existing.Variants, appVersion)])
       ELSE MapPut(appMap, appName,
                   [Name     |-> appName,
                    Version  |-> appVersion,
                    Variants |-> <<appVersion>>])

RECURSIVE FoldAppVersions(_, _, _)
FoldAppVersions(items, i, appMap) ==
    IF i > Len(items) THEN appMap
    ELSE FoldAppVersions(items, i + 1,
             processAppVersionFromUnstructured(items[i], appMap))

RECURSIVE FoldWorkloads(_, _, _)
FoldWorkloads(items, i, appMap) ==
    IF i > Len(items) THEN appMap
    ELSE FoldWorkloads(items, i + 1,
             processWorkloadLabels(items[i].Labels, items[i].Containers, appMap))

\* ------------------------------------------------------------------------
\* App discovery: the list calls
\* ------------------------------------------------------------------------

\* parseNamespaceSelector
parseNamespaceSelector(selector) ==
    IF selector = EmptyStr THEN <<EmptyStr>>
    ELSE LET namespaces == Split(selector, ",")
         IN [i \in 1..Len(namespaces) |-> TrimSpace(namespaces[i])]

\* The cluster as one refresh cycle sees it: for each of the three listed
\* collections a table from namespace (EmptyStr: all namespaces) to the
\* answer [err, items] of that list call.  A namespace without an entry
\* lists as empty.  Every call made with a cancelled context fails.
ListCall(table, ns, cancelled) ==
    IF cancelled THEN [err |-> TRUE, items |-> << >>]
    ELSE IF ns \in DOMAIN table THEN table[ns]
    ELSE [err |-> FALSE, items |-> << >>]

\* The loop over the selected namespaces of discoverAppsFromCRD: a failed
\* namespace is skipped.
RECURSIVE CRDNamespaces(_, _, _, _, _)

\* The loop as it would be if it stopped at the first failed namespace, as
\* the loops of the workload kinds do: C18 tells the two apart.
RECURSIVE CRDNamespaces_StopsAtFailure(_, _, _, _, _)
CRDNamespaces_StopsAtFailure(table, namespaces, i, cancelled, appMap) ==
    IF i > Len(namespaces) THEN appMap
    ELSE LET list == ListCall(table, namespaces[i], cancelled) IN
         IF list.err THEN appMap
         ELSE CRDNamespaces_StopsAtFailure(table, namespaces, i + 1, cancelled,
                                           FoldAppVersions(list.items, 1, appMap))

CRDNamespaces(table, namespaces, i, cancelled, appMap) ==
    IF i > Len(namespaces) THEN appMap
    ELSE LET list == ListCall(table, namespaces[i], cancelled) IN
         IF list.err
         THEN CRDNamespaces(table, namespaces, i + 1, cancelled, appMap)
         ELSE CRDNamespaces(table, namespaces, i + 1, cancelled,
                            FoldAppVersions(list.items, 1, appMap))

\* discoverAppsFromCRD returns [err, appMap]: the map is updated in place, so
\* what was folded before an error stays folded.
discoverAppsFromCRD(cfg, world, cancelled, appMap) ==
    IF cfg.NamespaceSelector = EmptyStr
    THEN LET list == ListCall(world.appVersions, EmptyStr, cancelled) IN
         IF list.err THEN [err |-> TRUE, appMap |-> appMap]
         ELSE [err |-> FALSE, appMap |-> FoldAppVersions(list.items, 1, appMap)]
    ELSE [err    |-> FALSE,
          appMap |-> CRDNamespaces(world.appVersions,
                                   parseNamespaceSelector(cfg.NamespaceSelector),
                                   1, cancelled, appMap)]

\* The loop over the namespaces of discoverFromDeployments and of
\* discoverFromStatefulSets (the two differ only in the collection listed):
\* the first failed list call returns the error.
RECURSIVE discoverFromWorkloadKind(_, _, _, _, _)
discoverFromWorkloadKind(table, namespaces, i, cancelled, appMap) ==
    IF i > Len(namespaces) THEN [err |-> FALSE, appMap |-> appMap]
    ELSE LET list == ListCall(table, namespaces[i], cancelled) IN
         IF list.err THEN [err |-> TRUE, appMap |-> appMap]
         ELSE discoverFromWorkloadKind(table, namespaces, i + 1, cancelled,
                                       FoldWorkloads(list.items, 1, appMap))

discoverFromDeployments(world, namespaces, cancelled, appMap) ==
    discoverFromWorkloadKind(world.deployments, namespaces, 1, cancelled, appMap)

discoverFromStatefulSets(world, namespaces, cancelled, appMap) ==
    discoverFromWorkloadKind(world.statefulSets, namespaces, 1, cancelled, appMap)

\* The loop over cfg.WorkloadKinds of discoverAppsFromWorkloads; a kind's
\* error is logged and the next kind runs; an unknown kind is ignored.
RECURSIVE WorkloadKindsLoop(_, _, _, _, _, _)
WorkloadKindsLoop(kinds, k, world, namespaces, cancelled, appMap) ==
    IF k > Len(kinds) THEN appMap
    ELSE LET after ==
               IF kinds[k] = "Deployment"
               THEN discoverFromDeployments(world, namespaces, cancelled, appMap).appMap
               ELSE IF kinds[k] = "StatefulSet"
               THEN discoverFromStatefulSets(world, namespaces, cancelled, appMap).appMap
               ELSE appMap
         IN WorkloadKindsLoop(kinds, k + 1, world, namespaces, cancelled, after)

discoverAppsFromWorkloads(cfg, world, cancelled, appMap) ==
    LET namespaces == IF cfg.NamespaceSelector # EmptyStr
                      THEN parseNamespaceSelector(cfg.NamespaceSelector)
                      ELSE <<EmptyStr>>
    IN WorkloadKindsLoop(cfg.WorkloadKinds, 1, world, namespaces, cancelled, appMap)

\* The list calls discoverApps issues, as the namespaces asked for in call
\* order (EmptyStr: the all-namespaces call).  The CRD loop goes on after a
\* failed call, so every namespace is asked for.
CRDListCalls(cfg) ==
    IF cfg.NamespaceSelector = EmptyStr THEN <<EmptyStr>>
    ELSE parseNamespaceSelector(cfg.NamespaceSelector)

\* The loop of one workload kind returns at its first failed call.
RECURSIVE WorkloadKindListCalls(_, _, _, _)
WorkloadKindListCalls(table, namespaces, i, cancelled) ==
    IF i > Len(namespaces) THEN << >>
    ELSE IF ListCall(table, namespaces[i], cancelled).err
    THEN <<namespaces[i]>>
    ELSE <<namespaces[i]>> \o
         WorkloadKindListCalls(table, namespaces, i + 1, cancelled)

\* The calls made for one kind over the loop of cfg.WorkloadKinds.
RECURSIVE KindListCalls(_, _, _, _, _, _)
KindListCalls(kinds, k, kind, table, namespaces, cancelled) ==
    IF k > Len(kinds) THEN << >>
    ELSE (IF kinds[k] = kind
          THEN WorkloadKindListCalls(table, namespaces, 1, cancelled)
          ELSE << >>)
         \o KindListCalls(kinds, k + 1, kind, table, namespaces, cancelled)

discoverAppsListCalls(cfg, world, cancelled) ==
    LET namespaces == IF cfg.NamespaceSelector # EmptyStr
                      THEN parseNamespaceSelector(cfg.NamespaceSelector)
                      ELSE <<EmptyStr>>
        workloads  == cfg.FallbackWorkloads /\ ~cfg.CRDOnly
    IN [appVersions  |-> IF cfg.PreferCRD THEN CRDListCalls(cfg) ELSE << >>,
        deployments  |-> IF workloads
                         THEN KindListCalls(cfg.WorkloadKinds, 1, "Deployment",
                                  world.deployments, namespaces, cancelled)
                         ELSE << >>,
        statefulSets |-> IF workloads
                         THEN KindListCalls(cfg.WorkloadKinds, 1, "StatefulSet",
                                  world.statefulSets, namespaces, cancelled)
                         ELSE << >>]

\* discoverApps as it would be if crdOnly were not looked at: C13 tells the
\* two apart.
discoverAppsMap_IgnoresCRDOnly(cfg, world, cancelled) ==
    LET afterCRD == IF cfg.PreferCRD
                    THEN discoverAppsFromCRD(cfg, world, cancelled, EmptyAppMap).appMap
                    ELSE EmptyAppMap
    IN IF cfg.FallbackWorkloads
       THEN discoverAppsFromWorkloads(cfg, world, cancelled, afterCRD)
       ELSE afterCRD

\* discoverApps as it would be if it ran the workload source before the CRD
\* source: C25 tells the two apart.
discoverAppsMap_WorkloadsFirst(cfg, world, cancelled) ==
    LET afterWorkloads == IF cfg.FallbackWorkloads /\ ~cfg.CRDOnly
                          THEN discoverAppsFromWorkloads(cfg, world, cancelled,
                                                         EmptyAppMap)
                          ELSE EmptyAppMap
    IN IF cfg.PreferCRD
       THEN discoverAppsFromCRD(cfg, world, cancelled, afterWorkloads).appMap
       ELSE afterWorkloads

\* The app map that discoverApps has built when it converts it to a slice.
discoverAppsMap(cfg, world, cancelled) ==
    LET afterCRD == IF cfg.PreferCRD
                    THEN discoverAppsFromCRD(cfg, world, cancelled, EmptyAppMap).appMap
                    ELSE EmptyAppMap
    IN IF cfg.FallbackWorkloads /\ ~cfg.CRDOnly
       THEN discoverAppsFromWorkloads(cfg, world, cancelled, afterCRD)
       ELSE afterCRD

\* The conversion to a slice as it would be if an entry could be appended
\* more than once: C32 tells the two apart.
MapSlices_WithRepeats(m) ==
    [1..Cardinality(DOMAIN m) -> {m[n] : n \in DOMAIN m}]

\* The slices a range over a Go map can produce: every order of its values.
MapSlices(m) ==
    {s \in [1..Cardinality(DOMAIN m) -> {m[n] : n \in DOMAIN m}] :
        \A i, j \in 1..Cardinality(DOMAIN m) : i # j => s[i] # s[j]}

\* discoverApps never fails; its result is one of these slices.
discoverApps(cfg, world, cancelled) ==
    MapSlices(discoverAppsMap(cfg, world, cancelled))

\* validateConfig as it would be if it tested fallbackWorkloads, the flag of
\* its warning, in place of preferCRD: C12 tells the two apart.
validateConfig_WrongFlag(cfg) == ~(cfg.CRDOnly /\ cfg.FallbackWorkloads)

\* validateConfig: TRUE iff it returns no error.
validateConfig(cfg) == ~(cfg.CRDOnly /\ ~cfg.PreferCRD)

\* ------------------------------------------------------------------------
\* The cluster the model runs against
\* ------------------------------------------------------------------------

S_myapp == <<"m","y","-","a","p","p">>
S_100 == <<"1",".","0",".","0">>
S_090 == <<"0",".","9",".","0">>

Str(chars) == [kind |-> "string", val |-> chars]

AppVersionObject(name, version) ==
    [spec |-> [kind |-> "map",
               val  |-> [name |-> Str(name), version |-> Str(version)]]]

LabelledWorkload(name, version) ==
    [Labels     |-> [k \in {"app.kubernetes.io/name", "app.kubernetes.io/version"} |->
                        IF k = "app.kubernetes.io/name" THEN name ELSE version],
     Containers |-> << >>]

ControlPlaneNode ==
    [Name           |-> "node-1",
     Labels         |-> {"node-role.kubernetes.io/control-plane"},
     Taints         |-> << >>,
     Addresses      |-> <<[Type |-> "Hostname", Address |-> "node-1"],
                          [Type |-> "InternalIP", Address |-> "10.0.1.100"]>>,
     KubeletVersion |-> "v1.28.4"]

WorkerNode ==
    [Name           |-> "node-2",
     Labels         |-> {"kubernetes.io/os"},
     Taints         |-> << >>,
     Addresses      |-> << >>,
     KubeletVersion |-> "v1.28.4"]

\* What a successful node list call can return.
NodeLists == {<<ControlPlaneNode>>, <<ControlPlaneNode, WorkerNode>>}
StableNodeLists == {<<ControlPlaneNode>>}

Ok(items) == [err |-> FALSE, items |-> items]
Failed == [err |-> TRUE, items |-> << >>]

\* The collections, listed across all namespaces.
ClusterContent ==
    [appVersions  |-> <<AppVersionObject(S_myapp, S_100)>>,
     deployments  |-> <<LabelledWorkload(S_myapp, S_090)>>,
     statefulSets |-> << >>]

Collections == {"appVersions", "deployments", "statefulSets"}

\* The cluster with the list calls of the collections in `failing` failing.
WorldWith(content, failing) ==
    [c \in Collections |->
        [ns \in {EmptyStr} |-> IF c \in failing THEN Failed ELSE Ok(content[c])]]

\* The failures of list calls the model lets happen.
FailureSets == {{}, {"appVersions"}}

Worlds == {WorldWith(ClusterContent, failing) : failing \in FailureSets}
StableWorlds == {WorldWith(ClusterContent, {})}

\* What the cluster can answer in a run: the node lists and the worlds its
\* list calls draw from.
ChangingCluster == [nodeLists |-> NodeLists, worlds |-> Worlds]
StableCluster == [nodeLists |-> StableNodeLists, worlds |-> StableWorlds]

DefaultConfig ==
    [CacheTTL          |-> 2,
     NamespaceSelector |-> EmptyStr,
     PreferCRD         |-> TRUE,
     FallbackWorkloads |-> TRUE,
     CRDOnly           |-> FALSE,
     WorkloadKinds     |-> <<"Deployment", "StatefulSet">>]

Configs == {DefaultConfig}

\* ------------------------------------------------------------------------
\* State
\* ------------------------------------------------------------------------

VARIABLES
    cfg,           \* types.Config, fixed at construction
    cluster,       \* what the cluster can answer in this run, fixed
    call,          \* the last call made of a function taken on its own, with
                   \* its arguments and its result; NoCall in a run of the program
    now,           \* the clock
    cache,         \* cd.cache: [Data, UpdatedAt, TTL]
    mu,            \* cd.cacheMutex: [writer, readers]
    ctxCancelled,  \* runServer's ctx is done
    stopCh,        \* cd.stopCh: "open" or "closed"
    crashed,       \* the process has panicked
    mainPc,        \* runServer
    extStops,      \* calls of Stop() made through the exposed interface
    discPc,        \* the goroutine running ClusterDiscovery.Start
    phase,         \* "initial": Start is in its first refresh; "periodic": in its loop
    startRet,      \* what Start returned: "none" (it has not), "nil", "error"
    lnodes,        \* refreshCache's local nodes
    lapps,         \* refreshCache's local apps
    tickCh,        \* ticker.C holds a tick (a channel of capacity 1)
    nextTick,      \* when the ticker fires next; NoTicker before time.NewTicker
    httpPc,        \* the goroutine running Server.Start
    cpc,           \* each client's request: where its handler is
    resp,          \* each client's response, until its next request
    answeredNow,   \* history: the clients answered since the cache, the clock
                   \* and the refresh's outcome last changed
    lastData,      \* history: the (nodes, apps) pair the last install wrote
    lastInstall,   \* history: the last install, [Nodes, Apps, at]
    failedSince,   \* history: a periodic cycle failed since the last install
    cycleStart     \* history: the cache entry when the cycle in progress began

vars == <<cfg, cluster, call, now, cache, mu, ctxCancelled, stopCh, crashed, mainPc,
          extStops, discPc, phase, startRet, lnodes, lapps, tickCh, nextTick,
          httpPc, cpc, resp, answeredNow, lastData, lastInstall, failedSince,
          cycleStart>>

mainVars == <<mainPc, extStops>>
loopVars == <<discPc, phase, startRet, lnodes, lapps>>
tickerVars == <<tickCh, nextTick>>
clientVars == <<cpc, resp, answeredNow>>
histVars == <<lastData, lastInstall, failedSince, cycleStart>>

\* ------------------------------------------------------------------------
\* The cache entry and the two queries
\* ------------------------------------------------------------------------

\* The zero time.Time (year 1) lies further before any clock value than a
\* time.Duration can express: Time.Sub saturates at the largest Duration.
ZeroTime == -1000000
MaxDuration == 1000

Min(a, b) == IF a < b THEN a ELSE b

\* time.Since as it would be if the zero time counted as the present: C34
\* tells the two apart.
Since_ZeroIsNow(t, t0) == IF t = ZeroTime THEN 0 ELSE Min(t0 - t, MaxDuration)

\* time.Since(t), taken at clock value t0
Since(t, t0) == Min(t0 - t, MaxDuration)

NoData == [nil |-> TRUE]
NoTicker == -1
APIVersion == "reflector.grid.sce.com/v1"

\* The cache entry NewClusterDiscovery builds.
NewCache(c) == [Data |-> NoData, UpdatedAt |-> ZeroTime, TTL |-> c.CacheTTL]

\* IsExpired as it would be if an age of exactly TTL counted as expired: C3
\* tells the two apart.
IsExpired_AtTTL(c, t0) == Since(c.UpdatedAt, t0) >= c.TTL

\* ClusterCache.IsExpired, taken at clock value t0
IsExpired(c, t0) == Since(c.UpdatedAt, t0) > c.TTL

\* The ClusterInfo refreshCache installs.  Its Timestamp is never read: every
\* copy that leaves the cache gets a new one in GetClusterInfo, so the cached
\* value carries none.
NewClusterInfo(nodes, apps) ==
    [APIVersion |-> APIVersion, Nodes |-> nodes, Apps |-> apps]

\* A ClusterInfo as GetClusterInfo hands it out, stamped at clock value t0.
Stamped(info, t0) ==
    [APIVersion |-> info.APIVersion, Timestamp |-> t0,
     Nodes |-> info.Nodes, Apps |-> info.Apps]

\* The placeholder GetClusterInfo returns for an empty or expired cache.
EmptyClusterInfo(t0) ==
    [APIVersion |-> APIVersion, Timestamp |-> t0, Nodes |-> << >>, Apps |-> << >>]

\* GetClusterInfo as it would be without the expiry test: C2 tells the two
\* apart.
GetClusterInfo_NoExpiry(c, t0) ==
    IF c.Data = NoData
    THEN EmptyClusterInfo(t0)
    ELSE Stamped(c.Data, t0)

\* GetClusterInfo's result, read under the read lock at clock value t0.
GetClusterInfo(c, t0) ==
    IF c.Data = NoData \/ IsExpired(c, t0)
    THEN EmptyClusterInfo(t0)
    ELSE Stamped(c.Data, t0)

\* HealthCheck as it would be with a staleness threshold of three times the
\* TTL: C4 tells the two apart.
HealthCheck_ThreeTTL(probeOk, c, ttl, t0) ==
    IF ~probeOk THEN "connectivity"
    ELSE IF Since(c.UpdatedAt, t0) > ttl * 3 THEN "stale"
    ELSE "healthy"

\* HealthCheck as it would be if the age were looked at before the probe's
\* result: C5 tells the two apart.
HealthCheck_AgeFirst(probeOk, c, ttl, t0) ==
    IF Since(c.UpdatedAt, t0) > ttl * 2 THEN "stale"
    ELSE IF ~probeOk THEN "connectivity"
    ELSE "healthy"

\* HealthCheck's result once the probe has answered: the age is read under
\* the read lock at clock value t0.
HealthCheck(probeOk, c, ttl, t0) ==
    IF ~probeOk THEN "connectivity"
    ELSE IF Since(c.UpdatedAt, t0) > ttl * 2 THEN "stale"
    ELSE "healthy"

\* sync.RWMutex: a reader enters unless a writer holds the lock or waits for
\* it; the writer enters when nobody holds it.  The writer waits in Lock()
\* while discPc = "lock".
CanRLock == ~mu.writer /\ discPc # "lock"
CanLock == ~mu.writer /\ mu.readers = {}

\* The response to GET /cluster-info as the client receives it: the body,
\* with its timestamp compared to the time of the response.
InfoResponse(info, t0) ==
    [kind       |-> "info",
     APIVersion |-> info.APIVersion,
     Nodes      |-> info.Nodes,
     Apps       |-> info.Apps,
     current    |-> info.Timestamp = t0]

\* The response to GET /healthz: 200 healthy, or 503 with the error.
HealthResponse(status) == [kind |-> "health", status |-> status]

\* ------------------------------------------------------------------------
\* Init: NewClusterDiscovery and NewServer have returned
\* ------------------------------------------------------------------------

NoResponse == [kind |-> "none"]
NoCall == [fn |-> "none"]
NoInstall == [nil |-> TRUE]

\* The state once NewClusterDiscovery and NewServer have returned, running
\* against cluster k under one of the configurations.
InitOf(k, configs) ==
    /\ cluster = k
    /\ call = NoCall
    /\ cfg \in {c \in configs : validateConfig(c)}
    /\ now = 0
    /\ cache = NewCache(cfg)
    /\ mu = [writer |-> FALSE, readers |-> {}]
    /\ ctxCancelled = FALSE
    /\ stopCh = "open"
    /\ crashed = FALSE
    /\ mainPc = "spawn"
    /\ extStops = 0
    /\ discPc = "notStarted"
    /\ phase = "initial"
    /\ startRet = "none"
    /\ lnodes = << >>
    /\ lapps = << >>
    /\ tickCh = FALSE
    /\ nextTick = NoTicker
    /\ httpPc = "notStarted"
    /\ cpc = [c \in Clients |-> "idle"]
    /\ resp = [c \in Clients |-> NoResponse]
    /\ answeredNow = {}
    /\ lastData = NoInstall
    /\ lastInstall = NoInstall
    /\ failedSince = FALSE
    /\ cycleStart = cache

InitWith(k) == InitOf(k, Configs)

Init == InitWith(ChangingCluster)

\* The same against a cluster that always answers the same.
InitStable == InitWith(StableCluster)

\* ------------------------------------------------------------------------
\* runServer
\* ------------------------------------------------------------------------

\* go disc.Start(ctx); go srv.Start(ctx): Start begins its initial
\* refreshCache, the server begins to ListenAndServe.
Spawn ==
    /\ ~crashed
    /\ mainPc = "spawn"
    /\ mainPc' = "wait"
    /\ discPc' = "nodes"
    /\ httpPc' = "listening"
    /\ UNCHANGED <<cfg, cluster, call, now, cache, mu, ctxCancelled, stopCh, crashed,
                   extStops, phase, startRet, lnodes, lapps, tickerVars,
                   clientVars, histVars>>

\* ClusterDiscovery.Stop: close(cd.stopCh); closing a closed channel panics.
StopPanics(ch) == ch = "closed"

\* runServer's select returns, on a shutdown signal (which can arrive at any
\* time) or on ctx.Done(); then cancel() and disc.Stop().  runServer returns
\* without waiting for its goroutines: they run on until the process exits,
\* which the model lets be arbitrarily late.
MainShutdown ==
    /\ ~crashed
    /\ mainPc = "wait"
    /\ mainPc' = "done"
    /\ ctxCancelled' = TRUE
    /\ crashed' = StopPanics(stopCh)
    /\ stopCh' = "closed"
    /\ UNCHANGED <<cfg, cluster, call, now, cache, mu, extStops, loopVars, tickerVars,
                   httpPc, clientVars, histVars>>

\* Stop() called through the exposed interface
ExternalStop ==
    /\ ~crashed
    /\ extStops < MaxStopCalls
    /\ extStops' = extStops + 1
    /\ crashed' = StopPanics(stopCh)
    /\ stopCh' = "closed"
    /\ UNCHANGED <<cfg, cluster, call, now, cache, mu, ctxCancelled, mainPc, loopVars,
                   tickerVars, httpPc, clientVars, histVars>>

\* ------------------------------------------------------------------------
\* ClusterDiscovery.Start and refreshCache
\* ------------------------------------------------------------------------

\* Start as it would be if it logged the initial refresh's error and went on:
\* C6 tells the two apart.
StartReturnsOnError_Never(ph) == FALSE

\* Start as it would be if it returned every refresh's error: C8 tells the
\* two apart.
StartReturnsOnError_Always(ph) == TRUE

\* What Start does with an error of refreshCache: the initial refresh's error
\* is returned, a periodic one is logged and the loop goes on.
StartReturnsOnError(ph) == ph = "initial"

\* RefreshNodes as it would be if refreshCache emptied the cache when the
\* node list fails: C37 tells the two apart.
RefreshNodes_ResetsOnError ==
    /\ ~crashed
    /\ discPc = "nodes"
    /\ \E failed \in BOOLEAN, items \in cluster.nodeLists :
          /\ ctxCancelled => failed
          /\ IF failed
             THEN /\ IF StartReturnsOnError(phase)
                     THEN /\ discPc' = "returned"
                          /\ startRet' = "error"
                          /\ ctxCancelled' = TRUE
                     ELSE /\ discPc' = "select"
                          /\ UNCHANGED <<startRet, ctxCancelled>>
                  /\ failedSince' = (failedSince \/ phase = "periodic")
                  /\ answeredNow' = {}
                  /\ cache' = NewCache(cfg)
                  /\ cycleStart' = cache'
                  /\ lnodes' = lnodes
             ELSE /\ discPc' = "apps"
                  /\ lnodes' = discoverNodes(items)
                  /\ UNCHANGED <<startRet, ctxCancelled, failedSince, cycleStart,
                                 answeredNow, cache>>
    /\ UNCHANGED <<cfg, cluster, call, now, mu, stopCh, crashed, mainVars,
                   phase, lapps, tickerVars, httpPc, cpc, resp, lastData,
                   lastInstall>>

\* discoverNodes: the list call and the conversion.  A call made with a
\* cancelled context fails; any call may fail.  On an error refreshCache
\* returns it at once; when Start returns it, runServer's goroutine calls
\* cancel().
RefreshNodes ==
    /\ ~crashed
    /\ discPc = "nodes"
    /\ \E failed \in BOOLEAN, items \in cluster.nodeLists :
          /\ ctxCancelled => failed
          /\ IF failed
             THEN /\ IF StartReturnsOnError(phase)
                     THEN /\ discPc' = "returned"
                          /\ startRet' = "error"
                          /\ ctxCancelled' = TRUE
                     ELSE /\ discPc' = "select"
                          /\ UNCHANGED <<startRet, ctxCancelled>>
                  /\ failedSince' = (failedSince \/ phase = "periodic")
                  /\ answeredNow' = {}
                  /\ cycleStart' = cache
                  /\ lnodes' = lnodes
             ELSE /\ discPc' = "apps"
                  /\ lnodes' = discoverNodes(items)
                  /\ UNCHANGED <<startRet, ctxCancelled, failedSince, cycleStart,
                                 answeredNow>>
    /\ UNCHANGED <<cfg, cluster, call, now, cache, mu, stopCh, crashed, mainVars,
                   phase, lapps, tickerVars, httpPc, cpc, resp, lastData,
                   lastInstall>>

\* discoverApps: it returns no error, whatever its list calls did.
RefreshApps ==
    /\ ~crashed
    /\ discPc = "apps"
    /\ \E world \in cluster.worlds :
          \E apps \in discoverApps(cfg, world, ctxCancelled) :
              lapps' = apps
    /\ discPc' = "lock"
    /\ UNCHANGED <<cfg, cluster, call, now, cache, mu, ctxCancelled, stopCh, crashed, mainVars,
                   phase, startRet, lnodes, tickerVars, httpPc, clientVars,
                   histVars>>

\* cd.cacheMutex.Lock()
RefreshLock ==
    /\ ~crashed
    /\ discPc = "lock"
    /\ CanLock
    /\ mu' = [mu EXCEPT !.writer = TRUE]
    /\ discPc' = "setData"
    /\ UNCHANGED <<cfg, cluster, call, now, cache, ctxCancelled, stopCh, crashed, mainVars,
                   phase, startRet, lnodes, lapps, tickerVars, httpPc,
                   clientVars, histVars>>

\* RefreshSetData as it would be if the install patched the cached snapshot
\* in place, its nodes only: C1 tells the two apart.
RefreshSetData_NodesOnly ==
    /\ ~crashed
    /\ discPc = "setData"
    /\ cache' = [cache EXCEPT !.Data =
                    IF cache.Data = NoData
                    THEN NewClusterInfo(lnodes, lapps)
                    ELSE NewClusterInfo(lnodes, cache.Data.Apps)]
    /\ lastData' = [Nodes |-> lnodes, Apps |-> lapps]
    /\ discPc' = "setUpdatedAt"
    /\ answeredNow' = {}
    /\ UNCHANGED <<cfg, cluster, call, now, mu, ctxCancelled, stopCh, crashed,
                   mainVars, phase, startRet, lnodes, lapps, tickerVars,
                   httpPc, cpc, resp, lastInstall, failedSince, cycleStart>>

\* RefreshSetData as it would be if the nodes of the cached snapshot that
\* the cycle did not list were kept: C31 tells the two apart.
RefreshSetData_CarriesOver ==
    /\ ~crashed
    /\ discPc = "setData"
    /\ cache' = [cache EXCEPT !.Data =
                    IF cache.Data = NoData
                    THEN NewClusterInfo(lnodes, lapps)
                    ELSE NewClusterInfo(
                             lnodes \o SelectSeq(cache.Data.Nodes,
                                           LAMBDA n : ~InSeq(n, lnodes)),
                             lapps)]
    /\ lastData' = [Nodes |-> lnodes, Apps |-> lapps]
    /\ discPc' = "setUpdatedAt"
    /\ answeredNow' = {}
    /\ UNCHANGED <<cfg, cluster, call, now, mu, ctxCancelled, stopCh, crashed,
                   mainVars, phase, startRet, lnodes, lapps, tickerVars,
                   httpPc, cpc, resp, lastInstall, failedSince, cycleStart>>

\* cd.cache.Data = &types.ClusterInfo{...}, under the write lock
RefreshSetData ==
    /\ ~crashed
    /\ discPc = "setData"
    /\ cache' = [cache EXCEPT !.Data = NewClusterInfo(lnodes, lapps)]
    /\ lastData' = [Nodes |-> lnodes, Apps |-> lapps]
    /\ discPc' = "setUpdatedAt"
    /\ answeredNow' = {}
    /\ UNCHANGED <<cfg, cluster, call, now, mu, ctxCancelled, stopCh, crashed,
                   mainVars, phase, startRet, lnodes, lapps, tickerVars,
                   httpPc, cpc, resp, lastInstall, failedSince, cycleStart>>

\* RefreshSetUpdatedAt as it would be without the Unlock, the write lock
\* staying held into the next cycle's list calls: C24 tells the two apart.
RefreshSetUpdatedAt_KeepsLock ==
    /\ ~crashed
    /\ discPc = "setUpdatedAt"
    /\ cache' = [cache EXCEPT !.UpdatedAt = now]
    /\ lastInstall' = [Nodes |-> lnodes, Apps |-> lapps, at |-> now]
    /\ failedSince' = FALSE
    /\ cycleStart' = cache'
    /\ discPc' = "select"
    /\ lnodes' = << >>
    /\ lapps' = << >>
    /\ phase' = "periodic"
    /\ IF phase = "initial"
       THEN /\ nextTick' = now + (cfg.CacheTTL \div 2)
            /\ crashed' = (cfg.CacheTTL \div 2 <= 0)
       ELSE UNCHANGED <<nextTick, crashed>>
    /\ answeredNow' = {}
    /\ UNCHANGED <<cfg, cluster, call, now, mu, ctxCancelled, stopCh, mainVars,
                   startRet, tickCh, httpPc, cpc, resp, lastData>>

\* RefreshSetUpdatedAt as it would be if Start made the ticker with the
\* whole TTL as its period: C33 tells the two apart.
RefreshSetUpdatedAt_TickerAtTTL ==
    /\ ~crashed
    /\ discPc = "setUpdatedAt"
    /\ cache' = [cache EXCEPT !.UpdatedAt = now]
    /\ mu' = [mu EXCEPT !.writer = FALSE]
    /\ lastInstall' = [Nodes |-> lnodes, Apps |-> lapps, at |-> now]
    /\ failedSince' = FALSE
    /\ cycleStart' = cache'
    /\ discPc' = "select"
    /\ lnodes' = << >>
    /\ lapps' = << >>
    /\ phase' = "periodic"
    /\ IF phase = "initial"
       THEN /\ nextTick' = now + cfg.CacheTTL
            /\ crashed' = (cfg.CacheTTL <= 0)
       ELSE UNCHANGED <<nextTick, crashed>>
    /\ answeredNow' = {}
    /\ UNCHANGED <<cfg, cluster, call, now, ctxCancelled, stopCh, mainVars, startRet,
                   tickCh, httpPc, cpc, resp, lastData>>

\* cd.cache.UpdatedAt = time.Now(); cd.cacheMutex.Unlock(); refreshCache
\* returns nil.  After the initial refresh Start creates the ticker;
\* time.NewTicker panics on a period <= 0.
RefreshSetUpdatedAt ==
    /\ ~crashed
    /\ discPc = "setUpdatedAt"
    /\ cache' = [cache EXCEPT !.UpdatedAt = now]
    /\ mu' = [mu EXCEPT !.writer = FALSE]
    /\ lastInstall' = [Nodes |-> lnodes, Apps |-> lapps, at |-> now]
    /\ failedSince' = FALSE
    /\ cycleStart' = cache'
    /\ discPc' = "select"
    /\ lnodes' = << >>
    /\ lapps' = << >>
    /\ phase' = "periodic"
    /\ IF phase = "initial"
       THEN /\ nextTick' = now + (cfg.CacheTTL \div 2)
            /\ crashed' = (cfg.CacheTTL \div 2 <= 0)
       ELSE UNCHANGED <<nextTick, crashed>>
    /\ answeredNow' = {}
    /\ UNCHANGED <<cfg, cluster, call, now, ctxCancelled, stopCh, mainVars, startRet,
                   tickCh, httpPc, cpc, resp, lastData>>

\* select: case <-ctx.Done().  The deferred ticker.Stop() runs; nothing reads
\* ticker.C once Start has returned.
LoopCtxDone ==
    /\ ~crashed
    /\ discPc = "select"
    /\ ctxCancelled
    /\ discPc' = "returned"
    /\ startRet' = "nil"
    /\ tickCh' = FALSE
    /\ nextTick' = NoTicker
    /\ UNCHANGED <<cfg, cluster, call, now, cache, mu, ctxCancelled, stopCh, crashed, mainVars,
                   phase, lnodes, lapps, httpPc, clientVars, histVars>>

\* select: case <-cd.stopCh
LoopStopped ==
    /\ ~crashed
    /\ discPc = "select"
    /\ stopCh = "closed"
    /\ discPc' = "returned"
    /\ startRet' = "nil"
    /\ tickCh' = FALSE
    /\ nextTick' = NoTicker
    /\ UNCHANGED <<cfg, cluster, call, now, cache, mu, ctxCancelled, stopCh, crashed, mainVars,
                   phase, lnodes, lapps, httpPc, clientVars, histVars>>

\* LoopTick as it would be if the tick were taken while a cycle runs, a
\* second cycle starting over the first: C26 tells the two apart.
LoopTick_DuringCycle ==
    /\ ~crashed
    /\ discPc \in {"select", "nodes", "apps", "lock", "setData", "setUpdatedAt"}
    /\ tickCh
    /\ tickCh' = FALSE
    /\ discPc' = "nodes"
    /\ cycleStart' = cache
    /\ UNCHANGED <<cfg, cluster, call, now, cache, mu, ctxCancelled, stopCh, crashed, mainVars,
                   phase, startRet, lnodes, lapps, nextTick, httpPc, clientVars,
                   lastData, lastInstall, failedSince>>

\* select: case <-ticker.C; the periodic refreshCache begins
LoopTick ==
    /\ ~crashed
    /\ discPc = "select"
    /\ tickCh
    /\ tickCh' = FALSE
    /\ discPc' = "nodes"
    /\ cycleStart' = cache
    /\ UNCHANGED <<cfg, cluster, call, now, cache, mu, ctxCancelled, stopCh, crashed, mainVars,
                   phase, startRet, lnodes, lapps, nextTick, httpPc, clientVars,
                   lastData, lastInstall, failedSince>>

\* The clock advances; the ticker fires when its time has come, and the tick
\* is dropped if ticker.C still holds the previous one.
AdvanceTime ==
    /\ ~crashed
    /\ now < MaxTime
    /\ now' = now + 1
    /\ IF nextTick # NoTicker /\ now' >= nextTick
       THEN /\ tickCh' = TRUE
            /\ nextTick' = nextTick + (cfg.CacheTTL \div 2)
       ELSE UNCHANGED <<tickCh, nextTick>>
    /\ answeredNow' = {}
    /\ UNCHANGED <<cfg, cluster, call, cache, mu, ctxCancelled, stopCh, crashed, mainVars,
                   loopVars, httpPc, cpc, resp, histVars>>

\* ------------------------------------------------------------------------
\* Server.Start and the request handlers
\* ------------------------------------------------------------------------

\* <-ctx.Done(); s.server.Shutdown: no new request is accepted, the handlers
\* that run go on to their end.
HttpShutdown ==
    /\ ~crashed
    /\ httpPc = "listening"
    /\ ctxCancelled
    /\ httpPc' = "shutdown"
    /\ UNCHANGED <<cfg, cluster, call, now, cache, mu, ctxCancelled, stopCh, crashed, mainVars,
                   loopVars, tickerVars, clientVars, histVars>>

\* GET /cluster-info is accepted; handleClusterInfo calls GetClusterInfo,
\* which takes cd.cacheMutex.RLock().
FetchRLock(c) ==
    /\ ~crashed
    /\ httpPc = "listening"
    /\ cpc[c] = "idle"
    /\ CanRLock
    /\ mu' = [mu EXCEPT !.readers = @ \cup {c}]
    /\ cpc' = [cpc EXCEPT ![c] = "fetchHold"]
    /\ resp' = [resp EXCEPT ![c] = NoResponse]
    /\ answeredNow' = answeredNow \ {c}
    /\ UNCHANGED <<cfg, cluster, call, now, cache, ctxCancelled, stopCh, crashed, mainVars,
                   loopVars, tickerVars, httpPc, histVars>>

\* FetchReturn as it would be if GetClusterInfo wrote the new timestamp into
\* the cached snapshot instead of a copy: C27 tells the two apart.
FetchReturn_StampsCache(c) ==
    /\ ~crashed
    /\ cpc[c] = "fetchHold"
    /\ resp' = [resp EXCEPT ![c] = InfoResponse(GetClusterInfo(cache, now), now)]
    /\ cache' = IF cache.Data = NoData \/ IsExpired(cache, now) THEN cache
                ELSE [cache EXCEPT !.Data = Stamped(cache.Data, now)]
    /\ mu' = [mu EXCEPT !.readers = @ \ {c}]
    /\ cpc' = [cpc EXCEPT ![c] = "idle"]
    /\ answeredNow' = answeredNow \cup {c}
    /\ UNCHANGED <<cfg, cluster, call, now, ctxCancelled, stopCh, crashed, mainVars,
                   loopVars, tickerVars, httpPc, histVars>>

\* The body of GetClusterInfo, the deferred RUnlock, and the response.
FetchReturn(c) ==
    /\ ~crashed
    /\ cpc[c] = "fetchHold"
    /\ resp' = [resp EXCEPT ![c] = InfoResponse(GetClusterInfo(cache, now), now)]
    /\ mu' = [mu EXCEPT !.readers = @ \ {c}]
    /\ cpc' = [cpc EXCEPT ![c] = "idle"]
    /\ answeredNow' = answeredNow \cup {c}
    /\ UNCHANGED <<cfg, cluster, call, now, cache, ctxCancelled, stopCh, crashed, mainVars,
                   loopVars, tickerVars, httpPc, histVars>>

\* GET /healthz is accepted: handleHealthz calls HealthCheck, which probes.
HealthBegin(c) ==
    /\ ~crashed
    /\ httpPc = "listening"
    /\ cpc[c] = "idle"
    /\ cpc' = [cpc EXCEPT ![c] = "probe"]
    /\ resp' = [resp EXCEPT ![c] = NoResponse]
    /\ answeredNow' = answeredNow \ {c}
    /\ UNCHANGED <<cfg, cluster, call, now, cache, mu, ctxCancelled, stopCh, crashed, mainVars,
                   loopVars, tickerVars, httpPc, histVars>>

\* The probe fails (an error, or the request's timeout): HealthCheck returns
\* the connectivity error.
ProbeFails(c) ==
    /\ ~crashed
    /\ cpc[c] = "probe"
    /\ resp' = [resp EXCEPT ![c] =
                  HealthResponse(HealthCheck(FALSE, cache, cfg.CacheTTL, now))]
    /\ cpc' = [cpc EXCEPT ![c] = "idle"]
    /\ answeredNow' = answeredNow \cup {c}
    /\ UNCHANGED <<cfg, cluster, call, now, cache, mu, ctxCancelled, stopCh, crashed, mainVars,
                   loopVars, tickerVars, httpPc, histVars>>

\* The probe succeeds; RLock, cacheAge := time.Since(cd.cache.UpdatedAt),
\* RUnlock (the read lock is held for this one read); the comparison with
\* twice the TTL; the response.
HealthReturn(c) ==
    /\ ~crashed
    /\ cpc[c] = "probe"
    /\ CanRLock
    /\ resp' = [resp EXCEPT ![c] =
                  HealthResponse(HealthCheck(TRUE, cache, cfg.CacheTTL, now))]
    /\ cpc' = [cpc EXCEPT ![c] = "idle"]
    /\ answeredNow' = answeredNow \cup {c}
    /\ UNCHANGED <<cfg, cluster, call, now, cache, mu, ctxCancelled, stopCh, crashed,
                   mainVars, loopVars, tickerVars, httpPc, histVars>>

\* ------------------------------------------------------------------------
\* The specification
\* ------------------------------------------------------------------------

\* A panic ends the process: no action is enabled once crashed.

FetchNext == \E c \in Fetchers : FetchRLock(c) \/ FetchReturn(c)

HealthNext ==
    \E c \in Checkers :
        HealthBegin(c) \/ ProbeFails(c) \/ HealthReturn(c)

\* The program as runServer runs it.
Next ==
    \/ Spawn
    \/ MainShutdown
    \/ RefreshNodes
    \/ RefreshApps
    \/ RefreshLock
    \/ RefreshSetData
    \/ RefreshSetUpdatedAt
    \/ LoopCtxDone
    \/ LoopStopped
    \/ LoopTick
    \/ HttpShutdown
    \/ FetchNext
    \/ HealthNext
    \/ AdvanceTime

Spec == Init /\ [][Next]_vars

\* The program with Stop() also called through the exposed interface.
NextAPI == Next \/ ExternalStop

SpecAPI == InitStable /\ [][NextAPI]_vars

\* What the scheduler owes the goroutines: every started goroutine goes on
\* running, each discovery call returns, a held lock is released.  A select
\* whose cases are ready picks one at random, so a case that is ready again
\* and again is taken in the end: strong fairness for the two ways out of the
\* loop.
Fairness ==
    /\ WF_vars(Spawn)
    /\ WF_vars(RefreshNodes)
    /\ WF_vars(RefreshApps)
    /\ WF_vars(RefreshLock)
    /\ WF_vars(RefreshSetData)
    /\ WF_vars(RefreshSetUpdatedAt)
    /\ WF_vars(FetchNext)
    /\ SF_vars(LoopCtxDone)
    /\ SF_vars(LoopStopped)

FairSpecAPI == InitStable /\ [][NextAPI]_vars /\ Fairness

\* ------------------------------------------------------------------------
\* What a client can tell from a response, and the history it is held against
\* ------------------------------------------------------------------------

\* The response is the empty placeholder.
IsPlaceholder(r) == r.kind = "info" /\ r.Nodes = << >> /\ r.Apps = << >>

\* The response's (nodes, apps) pair is the pair of install inst.
Carries(r, inst) ==
    /\ r.kind = "info"
    /\ inst # NoInstall
    /\ r.Nodes = inst.Nodes
    /\ r.Apps = inst.Apps

Installed == lastInstall # NoInstall

\* The time since the last install (read only where Installed holds)
InstallAge == now - lastInstall.at

\* A refreshCache call returns an error.
RefreshFails == RefreshNodes /\ discPc' # "apps"

\* ------------------------------------------------------------------------
\* C1 .. C5: what the two queries answer
\* ------------------------------------------------------------------------

\* C1: whatever the interleaving of the refresh with the readers, the
\* (nodes, apps) pair of every fetch-snapshot result is the empty placeholder
\* or the pair one single install wrote, never nodes of one install with apps
\* of another.
C1_ReaderSeesOneInstall ==
    [][\A c \in Fetchers :
          FetchReturn(c) =>
              IsPlaceholder(resp'[c]) \/ Carries(resp'[c], lastData)]_vars

\* A reader holds one install in full while the next install, with other
\* nodes and other apps, is being written.
C1_Witness ==
    \E c \in Fetchers :
        /\ discPc = "setUpdatedAt"
        /\ resp[c].kind = "info"
        /\ ~IsPlaceholder(resp[c])
        /\ resp[c].Nodes # lastData.Nodes
        /\ resp[c].Apps # lastData.Apps

\* C2: fetch-snapshot never fails and carries the schema version; it returns
\* the placeholder exactly when nothing has been installed or the last
\* install is older than TTL, and the last install's nodes and apps otherwise.
C2_PlaceholderIffEmptyOrExpired ==
    [][\A c \in Fetchers :
          FetchReturn(c) =>
              /\ resp'[c].kind = "info"
              /\ resp'[c].APIVersion = "reflector.grid.sce.com/v1"
              /\ resp'[c].current
              /\ IF ~Installed \/ InstallAge > cfg.CacheTTL
                 THEN IsPlaceholder(resp'[c])
                 ELSE Carries(resp'[c], lastInstall)]_vars

\* A fetch answered with the placeholder although the cache holds a
\* snapshot: the snapshot is older than TTL.
C2_Witness ==
    \E c \in Fetchers :
        /\ c \in answeredNow
        /\ IsPlaceholder(resp[c])
        /\ Installed
        /\ cache.Data # NoData
        /\ InstallAge > cfg.CacheTTL

\* C3 as stated: after a failed periodic cycle, fetch-snapshot returns the
\* last install's nodes and apps until the next install or until the age
\* exceeds twice the TTL.
C3_ServableUntilTwiceTTL ==
    [][\A c \in Fetchers :
          (FetchReturn(c) /\ failedSince /\ Installed
              /\ InstallAge <= 2 * cfg.CacheTTL)
          => Carries(resp'[c], lastInstall)]_vars

\* C3, amended: after a failed periodic cycle, fetch-snapshot returns the
\* last install's nodes and apps until the next install or until the age
\* exceeds the TTL; from then on it returns the placeholder.
C3_ServableUntilTTL ==
    [][\A c \in Fetchers :
          (FetchReturn(c) /\ failedSince /\ Installed)
          => IF InstallAge <= cfg.CacheTTL
             THEN Carries(resp'[c], lastInstall)
             ELSE IsPlaceholder(resp'[c])]_vars

\* After a failed periodic cycle a fetch is answered with the last install,
\* whose age has reached the TTL.
C3_Witness ==
    \E c \in Fetchers :
        /\ c \in answeredNow
        /\ failedSince
        /\ Carries(resp[c], lastInstall)
        /\ InstallAge = cfg.CacheTTL

\* C4: when more than twice the TTL has passed since the last install,
\* health-check reports unhealthy, and it reports stale when the probe
\* succeeded.
C4_StaleAfterTwiceTTL ==
    [][\A c \in Checkers :
          (Installed /\ InstallAge > 2 * cfg.CacheTTL) =>
              /\ ProbeFails(c) => resp'[c].status # "healthy"
              /\ HealthReturn(c) => resp'[c] = HealthResponse("stale")]_vars

\* A health check answered stale, more than twice the TTL after an install.
C4_Witness ==
    \E c \in Checkers :
        /\ c \in answeredNow
        /\ resp[c] = HealthResponse("stale")
        /\ Installed
        /\ InstallAge > 2 * cfg.CacheTTL

\* The cache's age is at most twice the TTL: something was installed, no
\* longer ago than that.
CacheFresh == Installed /\ InstallAge <= 2 * cfg.CacheTTL

\* C5 as stated: healthy iff the probe succeeds and the age is at most twice
\* the TTL; a failed probe yields the connectivity error whatever the age; a
\* stale cache yields the stale error whatever the probe.
C5_StaleWhateverTheProbe ==
    [][\A c \in Checkers :
          /\ ProbeFails(c) =>
                /\ resp'[c].status # "healthy"
                /\ (Installed /\ ~CacheFresh) =>
                      resp'[c] = HealthResponse("stale")
          /\ HealthReturn(c) =>
                resp'[c] = HealthResponse(IF CacheFresh THEN "healthy"
                                                        ELSE "stale")]_vars

\* C5, amended: healthy iff the probe succeeds and the age is at most twice
\* the TTL; a failed probe yields the connectivity error whatever the age; a
\* stale cache yields the stale error when the probe succeeds.
C5_HealthyIffProbeAndFresh ==
    [][\A c \in Checkers :
          /\ ProbeFails(c) => resp'[c] = HealthResponse("connectivity")
          /\ HealthReturn(c) =>
                resp'[c] = HealthResponse(IF CacheFresh THEN "healthy"
                                                        ELSE "stale")]_vars

\* A failed probe answered with the connectivity error over a cache older
\* than twice the TTL.
C5_Witness ==
    \E c \in Checkers :
        /\ c \in answeredNow
        /\ resp[c] = HealthResponse("connectivity")
        /\ Installed
        /\ ~CacheFresh

\* ------------------------------------------------------------------------
\* C6 .. C10: Start, Stop and the refresh loop
\* ------------------------------------------------------------------------

\* C6: if the initial refresh fails, Start returns an error and never enters
\* its loop: no ticker, no periodic cycle, and the cache entry stays as
\* NewClusterDiscovery built it (no snapshot, zero UpdatedAt).
C6_InitialFailureIsFatal ==
    /\ [][(RefreshFails /\ phase = "initial") =>
              (startRet' = "error" /\ discPc' = "returned")]_vars
    /\ [](startRet = "error" =>
              /\ discPc = "returned"
              /\ phase = "initial"
              /\ nextTick = NoTicker
              /\ ~tickCh
              /\ ~Installed
              /\ cache = NewCache(cfg))

\* Start has returned the initial refresh's error, and time has passed since.
C6_Witness ==
    /\ startRet = "error"
    /\ mainPc = "done"
    /\ now > 0

\* C7 as stated: no fetch-snapshot or health-check request is answered
\* before the initial refresh has completed, so none in a run whose initial
\* refresh fails.
C7_NoAnswerBeforeInitialRefresh ==
    \A c \in Clients : resp[c] # NoResponse => phase = "periodic"

\* C8: a failed periodic cycle is not fatal and leaves the cache entry as it
\* was when the cycle began: Start has not returned, the loop is back at its
\* select with the ticker running.
C8_PeriodicFailureKeepsCache ==
    [][(RefreshFails /\ phase = "periodic") =>
          /\ discPc' = "select"
          /\ startRet' = "none"
          /\ ~crashed'
          /\ nextTick' # NoTicker
          /\ cache' = cycleStart]_vars

\* After a failed periodic cycle a later tick was taken, and its cycle is
\* installing over the snapshot the failed cycle left in place.
C8_Witness ==
    /\ failedSince
    /\ discPc = "setUpdatedAt"
    /\ Installed
    /\ cycleStart.UpdatedAt = lastInstall.at

\* C9 as stated: Stop() called more than once, runServer's own call
\* included, completes without a crash.
C9_StopNeverPanics == ~crashed

\* C10 as stated: once the context is cancelled or Stop() is requested,
\* Start returns in the end.
C10_LoopEventuallyStops ==
    (ctxCancelled \/ stopCh = "closed") ~> (startRet # "none")

\* ------------------------------------------------------------------------
\* C11: cancellation during a refresh cycle
\* ------------------------------------------------------------------------

\* C11 as stated: a cycle during which the context is cancelled installs
\* nothing built from the list calls the cancellation cut short: the apps of
\* every install are what discoverApps returns when none of its calls runs
\* with a cancelled context.
C11_NoPartialInstall ==
    [][RefreshSetData =>
          \E world \in cluster.worlds :
              lapps \in discoverApps(cfg, world, FALSE)]_vars

\* ------------------------------------------------------------------------
\* The functions taken on their own: each action calls one of them with
\* arguments drawn from a bounded set and records the call, one call to a
\* run.  The program itself stays as constructed.
\* ------------------------------------------------------------------------

progVars == <<cfg, cluster, now, cache, mu, ctxCancelled, stopCh, crashed,
              mainPc, extStops, discPc, phase, startRet, lnodes, lapps,
              tickCh, nextTick, httpPc, cpc, resp, answeredNow, lastData,
              lastInstall, failedSince, cycleStart>>

\* Every setting of the three discovery flags.
FlagConfigs ==
    {[DefaultConfig EXCEPT !.PreferCRD = p, !.FallbackWorkloads = f,
                           !.CRDOnly = o] : p, f, o \in BOOLEAN}

NoService == [nil |-> TRUE]

\* NewClusterDiscovery: the error it returns ("nil" for none) and the service
\* it creates.  envOk: the Kubernetes configuration and the three clients
\* could be made.
NewClusterDiscovery(c, envOk) ==
    IF ~validateConfig(c) THEN [err |-> "config", service |-> NoService]
    ELSE IF ~envOk THEN [err |-> "kubernetes", service |-> NoService]
    ELSE [err     |-> "nil",
          service |-> [config |-> c, cache |-> NewCache(c), stopCh |-> "open"]]

CallNewClusterDiscovery ==
    /\ call = NoCall
    /\ \E c \in FlagConfigs, envOk \in BOOLEAN :
          call' = [fn     |-> "NewClusterDiscovery",
                   cfg    |-> c,
                   envOk  |-> envOk,
                   result |-> NewClusterDiscovery(c, envOk)]
    /\ UNCHANGED progVars

\* C12: construction rejects every configuration with crdOnly and without
\* preferCRD (an error, no service), so the configuration of every service
\* that exists, the running one included, has crdOnly only with preferCRD.
C12_CrdOnlyNeedsPreferCRD ==
    /\ cfg.CRDOnly => cfg.PreferCRD
    /\ call.fn = "NewClusterDiscovery" =>
          /\ (call.cfg.CRDOnly /\ ~call.cfg.PreferCRD) =>
                (call.result.err = "config" /\ call.result.service = NoService)
          /\ call.result.service # NoService =>
                /\ call.result.err = "nil"
                /\ call.result.service.config = call.cfg
                /\ call.cfg.CRDOnly => call.cfg.PreferCRD

\* Construction has rejected crdOnly without preferCRD although the
\* Kubernetes clients could be made.
C12_Witness ==
    /\ call.fn = "NewClusterDiscovery"
    /\ call.cfg.CRDOnly
    /\ ~call.cfg.PreferCRD
    /\ call.envOk
    /\ call.result.err = "config"

\* ---- discoverApps over what the sources hold ----

\* The longest list of objects a collection holds in a call.
MaxObjects == 2

S_crdapp == <<"c","r","d","-","a","p","p">>
S_wlapp == <<"w","l","-","a","p","p">>
S_200 == <<"2",".","0",".","0">>

\* The sequences over S of length at most n
SeqsUpTo(S, n) == UNION {[1..k -> S] : k \in 0..n}

AppVersionObjects ==
    {AppVersionObject(S_myapp, S_100), AppVersionObject(S_myapp, S_090),
     AppVersionObject(S_crdapp, S_100)}

Deployments ==
    {LabelledWorkload(S_myapp, S_100), LabelledWorkload(S_myapp, S_090),
     LabelledWorkload(S_wlapp, S_090)}

StatefulSetLists == {<< >>, <<LabelledWorkload(S_myapp, S_200)>>}

\* The worlds whose list calls all succeed, across all namespaces.
MergeWorlds ==
    {WorldWith([appVersions |-> a, deployments |-> d, statefulSets |-> t], {}) :
        a \in SeqsUpTo(AppVersionObjects, MaxObjects),
        d \in SeqsUpTo(Deployments, MaxObjects),
        t \in StatefulSetLists}

MergeInputs ==
    {[cfg |-> c, world |-> w, cancelled |-> FALSE] :
        c \in FlagConfigs, w \in MergeWorlds}

\* The inputs of discoverApps whose list calls all succeed.
CallDiscoverApps ==
    /\ call = NoCall
    /\ \E in \in MergeInputs :
          \E apps \in discoverApps(in.cfg, in.world, in.cancelled) :
              call' = [fn        |-> "discoverApps",
                       cfg       |-> in.cfg,
                       world     |-> in.world,
                       cancelled |-> in.cancelled,
                       result    |-> apps]
    /\ UNCHANGED progVars

\* What a call's sources held, read off the listed objects themselves.
\* A contribution is <<name, version>>.
CRDContribution(obj) == <<obj.spec.val.name.val, obj.spec.val.version.val>>

WorkloadContribution(w) ==
    <<w.Labels["app.kubernetes.io/name"], w.Labels["app.kubernetes.io/version"]>>

Listed(world, collection) == world[collection][EmptyStr].items

CRDContributions(world) ==
    [i \in 1..Len(Listed(world, "appVersions")) |->
        CRDContribution(Listed(world, "appVersions")[i])]

WorkloadContributions(world) ==
    LET ws == Listed(world, "deployments") \o Listed(world, "statefulSets")
    IN [i \in 1..Len(ws) |-> WorkloadContribution(ws[i])]

SeqRange(seq) == {seq[i] : i \in 1..Len(seq)}

NamesOf(contributions) == {p[1] : p \in SeqRange(contributions)}

ResultNames(apps) == {a.Name : a \in SeqRange(apps)}

MergeCall ==
    /\ call.fn = "discoverApps"
    /\ ~call.cancelled
    /\ call.cfg.NamespaceSelector = EmptyStr

\* C13: the sources that run are fixed by the flags: the CRD source runs iff
\* preferCRD, the workload source iff fallbackWorkloads and not crdOnly; the
\* apps are those of the sources that run and no others.
C13_SourcesFollowFlags ==
    MergeCall =>
        ResultNames(call.result) =
            (IF call.cfg.PreferCRD
             THEN NamesOf(CRDContributions(call.world)) ELSE {})
            \cup
            (IF call.cfg.FallbackWorkloads /\ ~call.cfg.CRDOnly
             THEN NamesOf(WorkloadContributions(call.world)) ELSE {})

\* With crdOnly and fallbackWorkloads both set, an app that only a workload
\* names is left out, and one that only an AppVersion names is in.
C13_Witness ==
    /\ MergeCall
    /\ call.cfg.CRDOnly /\ call.cfg.FallbackWorkloads /\ call.cfg.PreferCRD
    /\ S_wlapp \in NamesOf(WorkloadContributions(call.world))
    /\ S_crdapp \in ResultNames(call.result)
    /\ S_wlapp \notin ResultNames(call.result)


\* The contributions of a call in the order they are processed: the
\* AppVersion objects if the CRD source runs, then the workloads if the
\* workload source runs.
Processed(c) ==
    (IF c.cfg.PreferCRD THEN CRDContributions(c.world) ELSE << >>)
    \o
    (IF c.cfg.FallbackWorkloads /\ ~c.cfg.CRDOnly
     THEN WorkloadContributions(c.world) ELSE << >>)

IsNamed(p, n) == p[1] = n

\* The versions contributed to name n, in order
VersionsOf(contributions, n) ==
    LET named == SelectSeq(contributions, LAMBDA p : IsNamed(p, n))
    IN [i \in 1..Len(named) |-> named[i][2]]

\* seq without the repetitions, in first-seen order
RECURSIVE Dedup(_)
Dedup(seq) ==
    IF seq = << >> THEN << >>
    ELSE LET init == Dedup(SubSeq(seq, 1, Len(seq) - 1))
             last == seq[Len(seq)]
         IN IF last \in SeqRange(init) THEN init ELSE Append(init, last)

\* C14: the variants of every app are the distinct versions contributed to
\* its name by the AppVersion objects and the workloads of the cycle, each
\* once, in first-seen order.
C14_VariantsDistinctFirstSeen ==
    MergeCall =>
        \A a \in SeqRange(call.result) :
            a.Variants = Dedup(VersionsOf(Processed(call), a.Name))

\* An app to which both sources contributed, a version more than once: three
\* variants out of at least four contributions.
C14_Witness ==
    /\ MergeCall
    /\ \E a \in SeqRange(call.result) :
          /\ Len(a.Variants) = 3
          /\ Len(VersionsOf(Processed(call), a.Name)) >= 4
          /\ VersionsOf(CRDContributions(call.world), a.Name) # << >>
          /\ VersionsOf(WorkloadContributions(call.world), a.Name) # << >>


\* What each source, if it runs, contributes to name n in call c
CRDVersions(c, n) ==
    IF c.cfg.PreferCRD THEN VersionsOf(CRDContributions(c.world), n) ELSE << >>

WorkloadVersions(c, n) ==
    IF c.cfg.FallbackWorkloads /\ ~c.cfg.CRDOnly
    THEN VersionsOf(WorkloadContributions(c.world), n) ELSE << >>

LastOf(seq) == seq[Len(seq)]

\* C15 as stated: when the CRD source and the workload source both
\* contribute to a name in one cycle, the app's version is that of the last
\* processed contribution, a workload's included.
C15_LastProcessedWins ==
    MergeCall =>
        \A a \in SeqRange(call.result) :
            (CRDVersions(call, a.Name) # << >>
                /\ WorkloadVersions(call, a.Name) # << >>)
            => a.Version = LastOf(VersionsOf(Processed(call), a.Name))

\* C15, amended: the app's version is that of the last processed AppVersion
\* object of its name if there is one, whatever the workloads processed
\* after it; without one it is the version of the first processed workload
\* of the name.
C15_LastCRDElseFirstWorkload ==
    MergeCall =>
        \A a \in SeqRange(call.result) :
            a.Version = IF CRDVersions(call, a.Name) # << >>
                        THEN LastOf(CRDVersions(call, a.Name))
                        ELSE WorkloadVersions(call, a.Name)[1]

\* Two AppVersion objects and a later workload name the app with three
\* versions: the app has the second object's version.
C15_Witness ==
    /\ MergeCall
    /\ \E a \in SeqRange(call.result) :
          /\ Len(CRDVersions(call, a.Name)) = 2
          /\ CRDVersions(call, a.Name)[1] # CRDVersions(call, a.Name)[2]
          /\ WorkloadVersions(call, a.Name) # << >>
          /\ LastOf(WorkloadVersions(call, a.Name)) \notin
                SeqRange(CRDVersions(call, a.Name))
          /\ a.Version = CRDVersions(call, a.Name)[2]


\* The call has the default ordering: both preferCRD and fallbackWorkloads,
\* not crdOnly.
DefaultOrdering(c) ==
    c.cfg.PreferCRD /\ c.cfg.FallbackWorkloads /\ ~c.cfg.CRDOnly

\* C16: under the default ordering, one AppVersion object (N, Vc) and one
\* workload labelled N with another version Vw give the single app N with
\* version Vc and variants <<Vc, Vw>>.
C16_CRDVersionWorkloadVariant ==
    (MergeCall /\ DefaultOrdering(call)
        /\ Len(CRDContributions(call.world)) = 1
        /\ Len(WorkloadContributions(call.world)) = 1
        /\ CRDContributions(call.world)[1][1] =
              WorkloadContributions(call.world)[1][1]
        /\ CRDContributions(call.world)[1][2] #
              WorkloadContributions(call.world)[1][2])
    => call.result =
          <<[Name     |-> CRDContributions(call.world)[1][1],
             Version  |-> CRDContributions(call.world)[1][2],
             Variants |-> <<CRDContributions(call.world)[1][2],
                            WorkloadContributions(call.world)[1][2]>>]>>

\* The documented example: AppVersion my-app 1.0.0 and a deployment my-app
\* 0.9.0 give my-app, 1.0.0, <<1.0.0, 0.9.0>>.
C16_Witness ==
    /\ MergeCall /\ DefaultOrdering(call)
    /\ CRDContributions(call.world) = <<<<S_myapp, S_100>>>>
    /\ WorkloadContributions(call.world) = <<<<S_myapp, S_090>>>>
    /\ call.result = <<[Name     |-> S_myapp,
                        Version  |-> S_100,
                        Variants |-> <<S_100, S_090>>]>>


\* ------------------------------------------------------------------------
\* discoverApps with a namespace selector
\* ------------------------------------------------------------------------

\* The selector "a, b,c" and the namespaces it names.
S_selector == <<"a", ",", " ", "b", ",", "c">>
SelectedNamespaces == <<<<"a">>, <<"b">>, <<"c">>>>

\* A unit is one list call: a collection in a namespace.
Units == Collections \X SeqRange(SelectedNamespaces)

\* Every unit holds one object of my-app, with a version of its own:
\* "ca" for the AppVersion of namespace a, "db" for the deployment of b,
\* "sc" for the stateful set of c.
UnitVersion(u) ==
    <<(IF u[1] = "appVersions" THEN "c"
       ELSE IF u[1] = "deployments" THEN "d" ELSE "s")>> \o u[2]

UnitItems(u) ==
    IF u[1] = "appVersions"
    THEN <<AppVersionObject(S_myapp, UnitVersion(u))>>
    ELSE <<LabelledWorkload(S_myapp, UnitVersion(u))>>

\* The cluster with the list calls of the units in `failing` failing.
NamespacedWorld(failing) ==
    [c \in Collections |->
        [ns \in SeqRange(SelectedNamespaces) |->
            IF <<c, ns>> \in failing THEN Failed ELSE Ok(UnitItems(<<c, ns>>))]]

\* The two orders of the two workload kinds.
KindOrders == {<<"Deployment", "StatefulSet">>, <<"StatefulSet", "Deployment">>}

SelectedInputs ==
    {[cfg       |-> [c EXCEPT !.NamespaceSelector = S_selector,
                              !.WorkloadKinds = k],
      world     |-> NamespacedWorld(failing),
      cancelled |-> FALSE] :
        c \in FlagConfigs, k \in KindOrders, failing \in SUBSET Units}

\* discoverApps under the selector, with every set of failing list calls.
CallDiscoverAppsSelected ==
    /\ call = NoCall
    /\ \E in \in SelectedInputs :
          \E apps \in discoverApps(in.cfg, in.world, in.cancelled) :
              call' = [fn        |-> "discoverApps",
                       cfg       |-> in.cfg,
                       world     |-> in.world,
                       cancelled |-> in.cancelled,
                       result    |-> apps]
    /\ UNCHANGED progVars

SelectedCall ==
    /\ call.fn = "discoverApps"
    /\ ~call.cancelled
    /\ call.cfg.NamespaceSelector = S_selector

\* The unit's list call succeeded / its object reached the result.
ListedOk(c, u) == ~c.world[u[1]][u[2]].err

Folded(c, u) ==
    \E a \in SeqRange(c.result) : UnitVersion(u) \in SeqRange(a.Variants)

WorkloadUnits == {u \in Units : u[1] # "appVersions"}
CRDUnits == {u \in Units : u[1] = "appVersions"}

WorkloadsRun(c) == c.cfg.FallbackWorkloads /\ ~c.cfg.CRDOnly

\* C17: workload discovery isolates a failed list call to its (kind,
\* namespace) unit: the workloads of every unit whose own list call
\* succeeded are folded, whatever other units failed.
C17_WorkloadFailureIsPerUnit ==
    (SelectedCall /\ WorkloadsRun(call)) =>
        \A u \in WorkloadUnits : ListedOk(call, u) => Folded(call, u)

\* C18: under a selector, CRD discovery folds the AppVersion objects of
\* exactly the namespaces whose list call succeeded, whichever namespaces
\* before or after them failed.
C18_CRDFailureIsPerNamespace ==
    (SelectedCall /\ call.cfg.PreferCRD) =>
        \A u \in CRDUnits : Folded(call, u) <=> ListedOk(call, u)

\* The middle namespace fails and the AppVersion objects of the first and
\* the last are folded.
C18_Witness ==
    /\ SelectedCall /\ call.cfg.PreferCRD
    /\ ~ListedOk(call, <<"appVersions", <<"b">>>>)
    /\ Folded(call, <<"appVersions", <<"a">>>>)
    /\ Folded(call, <<"appVersions", <<"c">>>>)
    /\ ~Folded(call, <<"appVersions", <<"b">>>>)


\* ------------------------------------------------------------------------
\* refreshCache as one call
\* ------------------------------------------------------------------------

\* refreshCache as it would be if an error of the CRD source failed the
\* cycle: C19 tells the two apart.
refreshCache_FailsOnSourceError(nodeAnswer, c, world, cancelled) ==
    LET nodes == IF cancelled THEN Failed ELSE nodeAnswer
        crd   == discoverAppsFromCRD(c, world, cancelled, EmptyAppMap)
    IN IF nodes.err \/ (c.PreferCRD /\ crd.err)
       THEN {[err |-> TRUE, installs |-> FALSE, data |-> NoData]}
       ELSE {[err      |-> FALSE,
              installs |-> TRUE,
              data     |-> NewClusterInfo(discoverNodes(nodes.items), apps)] :
                apps \in discoverApps(c, world, cancelled)}

\* The outcomes of one refreshCache: the error it returns and, if it
\* installs, the ClusterInfo it installs.  nodeAnswer is the answer of the
\* node list call; with a cancelled context every list call fails.
\* discoverApps never returns an error, so the second return of refreshCache
\* is never taken.
refreshCache(nodeAnswer, c, world, cancelled) ==
    LET nodes == IF cancelled THEN Failed ELSE nodeAnswer
    IN IF nodes.err
       THEN {[err |-> TRUE, installs |-> FALSE, data |-> NoData]}
       ELSE {[err      |-> FALSE,
              installs |-> TRUE,
              data     |-> NewClusterInfo(discoverNodes(nodes.items), apps)] :
                apps \in discoverApps(c, world, cancelled)}

\* One app per collection, so that the result tells which sources ran.
SourceContent ==
    [appVersions  |-> <<AppVersionObject(S_crdapp, S_100)>>,
     deployments  |-> <<LabelledWorkload(S_wlapp, S_090)>>,
     statefulSets |-> <<LabelledWorkload(S_myapp, S_200)>>]

NodeAnswers == {Failed} \cup {Ok(items) : items \in NodeLists}

\* Every subset of failing list calls, across all namespaces and under the
\* selector.
RefreshInputs ==
    {[nodeAnswer |-> n, cfg |-> c,
      world |-> WorldWith(SourceContent, failing), cancelled |-> x] :
        n \in NodeAnswers, c \in FlagConfigs,
        failing \in SUBSET Collections, x \in BOOLEAN}
    \cup
    {[nodeAnswer |-> n, cfg |-> [DefaultConfig EXCEPT !.NamespaceSelector = S_selector],
      world |-> NamespacedWorld(failing), cancelled |-> FALSE] :
        n \in NodeAnswers, failing \in SUBSET Units}

CallRefreshCache ==
    /\ call = NoCall
    /\ \E in \in RefreshInputs :
          \E out \in refreshCache(in.nodeAnswer, in.cfg, in.world, in.cancelled) :
              call' = [fn         |-> "refreshCache",
                       nodeAnswer |-> in.nodeAnswer,
                       cfg        |-> in.cfg,
                       world      |-> in.world,
                       cancelled  |-> in.cancelled,
                       result     |-> out]
    /\ UNCHANGED progVars

RefreshCall == call.fn = "refreshCache"

NodeDiscoveryFails(c) == c.cancelled \/ c.nodeAnswer.err

\* The list call of the whole collection failed (no selector).
WholeListFails(c, collection) ==
    /\ c.cfg.NamespaceSelector = EmptyStr
    /\ c.world[collection][EmptyStr].err

\* C19: a refresh cycle fails iff node discovery fails; whatever list calls
\* of the CRD and workload sources fail, a cycle whose node discovery
\* succeeded installs a snapshot with the discovered nodes; and when the
\* CRD source fails as a whole the workload source still runs.
C19_OnlyNodeFailureFailsTheCycle ==
    RefreshCall =>
        /\ call.result.err <=> NodeDiscoveryFails(call)
        /\ call.result.installs <=> ~NodeDiscoveryFails(call)
        /\ call.result.installs =>
              call.result.data.Nodes = discoverNodes(call.nodeAnswer.items)
        /\ (/\ call.result.installs
            /\ call.cfg.PreferCRD
            /\ WholeListFails(call, "appVersions")
            /\ WorkloadsRun(call)
            /\ ~WholeListFails(call, "deployments"))
           => S_wlapp \in ResultNames(call.result.data.Apps)

\* The AppVersion list and the stateful set list fail, the deployments are
\* listed: the cycle succeeds and installs the nodes with the deployment's
\* app.
C19_Witness ==
    /\ RefreshCall
    /\ ~NodeDiscoveryFails(call)
    /\ call.cfg.PreferCRD /\ WorkloadsRun(call)
    /\ WholeListFails(call, "appVersions")
    /\ WholeListFails(call, "statefulSets")
    /\ ~WholeListFails(call, "deployments")
    /\ ~call.result.err
    /\ call.result.installs
    /\ ResultNames(call.result.data.Apps) = {S_wlapp}


\* ------------------------------------------------------------------------
\* getNodeRole as one call
\* ------------------------------------------------------------------------

MaxTaints == 2

\* Taint keys: two that contain a marker inside a longer key, one that
\* holds only the beginning of a marker, one unrelated.
K_controlplane == <<"x", "/">> \o S_controlplane
K_masters == S_master \o <<"s">>
K_mast == <<"m", "a", "s", "t">>
K_gpu == <<"g", "p", "u">>

MarkerKeys == {K_controlplane, K_masters}
TaintKeys == MarkerKeys \cup {K_mast, K_gpu}
TaintEffects == {"NoSchedule", "NoExecute", "PreferNoSchedule"}

Taints == [Key : TaintKeys, Effect : TaintEffects]

MarkerLabels ==
    {"node-role.kubernetes.io/control-plane", "node-role.kubernetes.io/master"}
LabelKeys == MarkerLabels \cup {"kubernetes.io/os"}

RoleInputs ==
    {[WorkerNode EXCEPT !.Labels = l, !.Taints = t] :
        l \in SUBSET LabelKeys, t \in SeqsUpTo(Taints, MaxTaints)}

CallGetNodeRole ==
    /\ call = NoCall
    /\ \E node \in RoleInputs :
          call' = [fn |-> "getNodeRole", node |-> node, result |-> getNodeRole(node)]
    /\ UNCHANGED progVars

RoleCall == call.fn = "getNodeRole"

DiscoveryPending == discPc \in {"nodes", "apps"}
ProbePending(h) == cpc[h] = "probe"

\* C24: while a list call of the refresh task is pending the write lock is
\* not held, and a health check whose probe is pending holds no read lock;
\* so while either is pending a fetch that has arrived takes the read
\* lock, and one that holds it returns.
C24_NoLockAcrossClusterCalls ==
    /\ DiscoveryPending => ~mu.writer
    /\ \A h \in Checkers : ProbePending(h) => h \notin mu.readers
    /\ (~crashed /\ DiscoveryPending) =>
          \A f \in Fetchers :
              /\ (httpPc = "listening" /\ cpc[f] = "idle")
                    => ENABLED FetchRLock(f)
              /\ cpc[f] = "fetchHold" => ENABLED FetchReturn(f)

\* In a periodic cycle the app list calls are pending, a health probe is
\* pending, and a fetch holds the read lock.
C24_Witness ==
    /\ phase = "periodic"
    /\ discPc = "apps"
    /\ ProbePending("h1")
    /\ cpc["f1"] = "fetchHold"
    /\ ENABLED FetchReturn("f1")

\* A refreshCache is running.
InCycle == discPc \in {"nodes", "apps", "lock", "setData", "setUpdatedAt"}

\* C26: no refresh cycle starts while one is running, whatever ticks fire
\* meanwhile, and a cycle installs over the cache entry it found when it
\* started: no other cycle has installed in between.
C26_OneCycleAtATime ==
    [][/\ (InCycle /\ discPc' = "nodes") => discPc = "nodes"
       /\ cache'.UpdatedAt # cache.UpdatedAt
             => (InCycle /\ cache.UpdatedAt = cycleStart.UpdatedAt)]_vars

\* The ticker has fired while a periodic cycle is waiting for the write
\* lock: the tick waits in ticker.C.
C26_Witness ==
    /\ phase = "periodic"
    /\ discPc = "lock"
    /\ tickCh

\* C27: no step of a fetch or of a health check changes the cache entry;
\* its TTL never changes; the entry changes only in the two assignments of
\* a refresh cycle that reached its install, made under the write lock; and
\* whenever the write lock is free the snapshot and the last write time are
\* those of one and the same install.
C27_OnlyTheInstallWritesTheCache ==
    /\ [][/\ (FetchNext \/ HealthNext) => cache' = cache
          /\ cache'.TTL = cache.TTL
          /\ cache' # cache =>
                /\ RefreshSetData \/ RefreshSetUpdatedAt
                /\ mu.writer]_vars
    /\ [](~mu.writer =>
            IF Installed
            THEN /\ cache.Data = NewClusterInfo(lastInstall.Nodes, lastInstall.Apps)
                 /\ cache.UpdatedAt = lastInstall.at
            ELSE cache = NewCache(cfg))

\* A fetch has answered with the installed snapshot stamped with the
\* current time and a health check has answered, after the install's time;
\* the cache entry still has the install's snapshot and time.
C27_Witness ==
    /\ Installed
    /\ lastInstall.at < now
    /\ answeredNow = {"f1", "h1"}
    /\ Carries(resp["f1"], lastInstall)
    /\ ~IsPlaceholder(resp["f1"])
    /\ resp["f1"].current
    /\ resp["h1"].kind = "health"
    /\ ~mu.writer
    /\ cache.UpdatedAt = lastInstall.at
    /\ cache.Data = NewClusterInfo(lastInstall.Nodes, lastInstall.Apps)

\* Every unit's object carries a version of its own, so the variants of
\* the one app list the folded units in the order of their folding.
UnitOf(version) == CHOOSE u \in Units : UnitVersion(u) = version

IndexIn(seq, x) == CHOOSE i \in 1..Len(seq) : seq[i] = x

KindOf(collection) ==
    IF collection = "deployments" THEN "Deployment" ELSE "StatefulSet"

\* The place of a unit in the claimed order: the CRD source first, then the
\* kinds as configured, and for each the namespaces as selected.
UnitRank(c, u) ==
    (IF u[1] = "appVersions" THEN 0
     ELSE 10 * IndexIn(c.cfg.WorkloadKinds, KindOf(u[1])))
    + IndexIn(SelectedNamespaces, u[2])

\* C25: with both sources enabled every AppVersion object is folded before
\* every workload, the workloads kind by kind in the configured order, and
\* those of a kind namespace by namespace in the selector's order.
C25_FoldOrder ==
    (SelectedCall /\ call.cfg.PreferCRD /\ WorkloadsRun(call)) =>
        \A a \in SeqRange(call.result) :
            \A i, j \in 1..Len(a.Variants) :
                i < j => UnitRank(call, UnitOf(a.Variants[i]))
                            < UnitRank(call, UnitOf(a.Variants[j]))

\* With the stateful sets configured before the deployments and no failed
\* call, all nine units are folded: the three AppVersion objects, then the
\* stateful sets, then the deployments, each in the order a, b, c.
C25_Witness ==
    /\ SelectedCall /\ call.cfg.PreferCRD /\ WorkloadsRun(call)
    /\ call.cfg.WorkloadKinds = <<"StatefulSet", "Deployment">>
    /\ Len(call.result) = 1
    /\ call.result[1].Variants =
          <<<<"c", "a">>, <<"c", "b">>, <<"c", "c">>,
            <<"s", "a">>, <<"s", "b">>, <<"s", "c">>,
            <<"d", "a">>, <<"d", "b">>, <<"d", "c">>>>

\* ------------------------------------------------------------------------
\* The list calls of discoverApps
\* ------------------------------------------------------------------------

\* Selectors with their comma-separated, trimmed tokens: none, "a, b",
\* "b,a", " a ", and with empty tokens "a,", "a,,b" and " ".
SelectorCases ==
    {[text |-> EmptyStr, names |-> <<EmptyStr>>],
     [text |-> <<"a", ",", " ", "b">>, names |-> <<<<"a">>, <<"b">>>>],
     [text |-> <<"b", ",", "a">>, names |-> <<<<"b">>, <<"a">>>>],
     [text |-> <<" ", "a", " ">>, names |-> <<<<"a">>>>],
     [text |-> <<"a", ",">>, names |-> <<<<"a">>, EmptyStr>>],
     [text |-> <<"a", ",", ",", "b">>, names |-> <<<<"a">>, EmptyStr, <<"b">>>>],
     [text |-> <<" ">>, names |-> <<EmptyStr>>]}

QueriedNamespaces == {EmptyStr, <<"a">>, <<"b">>}
QueryUnits == Collections \X QueriedNamespaces

\* The cluster with the list calls of the units in `failing` failing and
\* the others returning nothing.
QueryWorld(failing) ==
    [c \in Collections |->
        [ns \in QueriedNamespaces |->
            IF <<c, ns>> \in failing THEN Failed ELSE Ok(<< >>)]]

CallDiscoverAppsListCalls ==
    /\ call = NoCall
    /\ \E sel \in SelectorCases, failing \in SUBSET QueryUnits :
          LET c == [DefaultConfig EXCEPT !.NamespaceSelector = sel.text]
              w == QueryWorld(failing)
          IN call' = [fn       |-> "discoverAppsListCalls",
                      cfg      |-> c,
                      selector |-> sel,
                      world    |-> w,
                      result   |-> discoverAppsListCalls(c, w, FALSE)]
    /\ UNCHANGED progVars

ListCallsCall == call.fn = "discoverAppsListCalls"

\* C21: without a selector each source and kind makes exactly the one
\* all-namespaces list call; with a selector each makes exactly one list
\* call per comma-separated, whitespace-trimmed token, in selector order.
C21_OneListCallPerNamespace ==
    ListCallsCall =>
        \A c \in Collections : call.result[c] = call.selector.names

\* The same holds of the CRD source, and of a workload kind whenever none
\* of its list calls but the last fails.
C21_OneListCallUnlessAborted ==
    ListCallsCall =>
        /\ call.result.appVersions = call.selector.names
        /\ \A c \in {"deployments", "statefulSets"} :
              (\A i \in 1..(Len(call.selector.names) - 1) :
                    ~call.world[c][call.selector.names[i]].err)
              => call.result[c] = call.selector.names


\* C35: under a selector that is not the empty string no list call of
\* either source is the all-namespaces call, empty tokens in the selector
\* or not.
C35_SelectorConfinesDiscovery ==
    (ListCallsCall /\ call.selector.text # EmptyStr) =>
        \A c \in Collections : EmptyStr \notin SeqRange(call.result[c])

\* ------------------------------------------------------------------------
\* parseImageTag as one call
\* ------------------------------------------------------------------------

\* The parts of an image reference [prefix]name[:tag][@digest]; an absent
\* part is the empty string.
S_app == <<"a","p","p">>
S_myapi == <<"m","y","-","a","p","i">>
S_123 == <<"1",".","2",".","3">>
S_v1 == <<"v","1">>
P_registry == <<"r","e","g","i","s","t","r","y",".","i","o","/","t","e","a","m","/">>
P_port == <<"l","o","c","a","l","h","o","s","t",":","5","0","0","0","/">>
D_sha256 == <<"s","h","a","2","5","6",":","a","b","c","d">>

ImagePrefixes == {EmptyStr, P_registry, P_port}
ImageNames == {S_app, S_myapi}
ImageTags == {EmptyStr, S_123, S_v1}
ImageDigests == {EmptyStr, D_sha256}

ImageParts ==
    [prefix : ImagePrefixes, name : ImageNames, tag : ImageTags,
     digest : ImageDigests]

\* The reference as written.
ImageOf(parts) ==
    parts.prefix \o parts.name
    \o (IF parts.tag # EmptyStr THEN <<":">> \o parts.tag ELSE EmptyStr)
    \o (IF parts.digest # EmptyStr THEN <<"@">> \o parts.digest ELSE EmptyStr)

CallParseImageTag ==
    /\ call = NoCall
    /\ \E parts \in ImageParts :
          call' = [fn     |-> "parseImageTag",
                   parts  |-> parts,
                   image  |-> ImageOf(parts),
                   result |-> parseImageTag(ImageOf(parts))]
    /\ UNCHANGED progVars

ParseCall == call.fn = "parseImageTag"

\* C22: of a reference with a tag, the name is what stands between the last
\* "/" and the ":", and the version is the tag without any "@digest" after
\* it; of a reference with neither tag nor digest the name is what follows
\* the last "/" and the version is "latest".
C22_TaggedReference ==
    ParseCall =>
        /\ call.parts.tag # EmptyStr
              => call.result = <<call.parts.name, call.parts.tag>>
        /\ (call.parts.tag = EmptyStr /\ call.parts.digest = EmptyStr)
              => call.result = <<call.parts.name, S_latest>>

\* registry.io/team/app:1.2.3@sha256:abcd gives (app, 1.2.3).
C22_Witness ==
    /\ ParseCall
    /\ call.parts = [prefix |-> P_registry, name |-> S_app, tag |-> S_123,
                     digest |-> D_sha256]
    /\ call.result = <<S_app, S_123>>

\* C23: of a reference with a digest and no tag, such as app@sha256:abcd,
\* the name is the name and the version is "latest".
C23_DigestOnlyIsLatest ==
    (ParseCall /\ call.parts.tag = EmptyStr /\ call.parts.digest # EmptyStr)
        => call.result = <<call.parts.name, S_latest>>


\* ------------------------------------------------------------------------
\* The fold steps as single calls
\* ------------------------------------------------------------------------

App(name, version, variants) ==
    [Name |-> name, Version |-> version, Variants |-> variants]

\* The app maps a fold step can find: empty, my-app at its first version,
\* my-app at its second version, and the latter with a second app.
AppMapInputs ==
    LET m1 == MapPut(EmptyAppMap, S_myapp, App(S_myapp, S_100, <<S_100>>))
        m2 == MapPut(EmptyAppMap, S_myapp, App(S_myapp, S_090, <<S_100, S_090>>))
        m3 == MapPut(m2, S_crdapp, App(S_crdapp, S_100, <<S_100>>))
    IN {EmptyAppMap, m1, m2, m3}

\* AppVersion objects with a string spec.name and a string spec.version;
\* the name may be the empty string.
WellFormedObjects ==
    {AppVersionObject(n, v) :
        n \in {S_myapp, S_crdapp, S_wlapp, EmptyStr},
        v \in {S_100, S_090, S_200}}

\* AppVersion objects without spec, with a spec that is no map, and with a
\* name or a version that is missing or is no string.
Other(x) == [kind |-> "other", val |-> x]
SpecOf(fields) == [spec |-> [kind |-> "map", val |-> fields]]

MalformedObjects ==
    {[metadata |-> Str(S_myapp)],
     [spec |-> Str(S_myapp)],
     SpecOf([version |-> Str(S_100)]),
     SpecOf([name |-> Other(7), version |-> Str(S_100)]),
     SpecOf([name |-> Str(S_myapp)]),
     SpecOf([name |-> Str(S_myapp), version |-> Other(7)])}

CallProcessAppVersion ==
    /\ call = NoCall
    /\ \E obj \in WellFormedObjects \cup MalformedObjects, m \in AppMapInputs :
          call' = [fn         |-> "processAppVersionFromUnstructured",
                   obj        |-> obj,
                   wellFormed |-> obj \in WellFormedObjects,
                   appMap     |-> m,
                   result     |-> processAppVersionFromUnstructured(obj, m)]
    /\ UNCHANGED progVars

FoldStepCall == call.fn = "processAppVersionFromUnstructured"

\* C28: folding the AppVersion object (N, V) into a map without N adds the
\* app N with version V and variants <<V>>; into a map with N it sets the
\* version to V and appends V to the variants unless V is among them, the
\* variants there staying as they are and in their order; no other app is
\* touched.
C28_CRDFoldRule ==
    (FoldStepCall /\ call.wellFormed) =>
        LET N   == CRDContribution(call.obj)[1]
            V   == CRDContribution(call.obj)[2]
            old == call.appMap
            new == call.result
        IN /\ DOMAIN new = DOMAIN old \cup {N}
           /\ \A n \in DOMAIN old \ {N} : new[n] = old[n]
           /\ new[N].Name = N
           /\ new[N].Version = V
           /\ new[N].Variants =
                 IF N \notin DOMAIN old THEN <<V>>
                 ELSE IF V \in SeqRange(old[N].Variants) THEN old[N].Variants
                 ELSE old[N].Variants \o <<V>>

\* my-app, at 0.9.0 with variants <<1.0.0, 0.9.0>>, is named again with
\* 1.0.0: the version goes back to 1.0.0 and the variants stay.
C28_Witness ==
    /\ FoldStepCall /\ call.wellFormed
    /\ CRDContribution(call.obj) = <<S_myapp, S_100>>
    /\ S_myapp \in DOMAIN call.appMap
    /\ call.appMap[S_myapp] = App(S_myapp, S_090, <<S_100, S_090>>)
    /\ call.result[S_myapp] = App(S_myapp, S_100, <<S_100, S_090>>)


\* The label maps of a workload: each of the two labels absent, present and
\* empty, or present with a value.
NameLabel == "app.kubernetes.io/name"
VersionLabel == "app.kubernetes.io/version"

LabelMaps ==
    {[k \in keys |-> IF k = NameLabel THEN n ELSE v] :
        keys \in SUBSET {NameLabel, VersionLabel},
        n \in {EmptyStr, S_myapp}, v \in {EmptyStr, S_090}}

\* Images: app:1.2.3, app, app: (an empty tag), :1.2.3 (an empty name), the
\* empty string, and app@sha256:abcd.
Images ==
    {S_app \o <<":">> \o S_123, S_app, S_app \o <<":">>, <<":">> \o S_123,
     EmptyStr, S_app \o <<"@">> \o D_sha256}

\* No container, one container, or two of which the second is my-api:v1.
ContainerLists ==
    {<< >>}
    \cup {<<[Image |-> i]>> : i \in Images}
    \cup {<<[Image |-> i], [Image |-> S_myapi \o <<":">> \o S_v1]>> : i \in Images}

CallProcessWorkloadLabels ==
    /\ call = NoCall
    /\ \E labels \in LabelMaps, containers \in ContainerLists,
          m \in AppMapInputs :
          call' = [fn         |-> "processWorkloadLabels",
                   labels     |-> labels,
                   containers |-> containers,
                   appMap     |-> m,
                   result     |-> processWorkloadLabels(labels, containers, m)]
    /\ UNCHANGED progVars

WorkloadStepCall == call.fn = "processWorkloadLabels"

\* The value of a label, the empty string if the label is absent
LabelValue(c, k) == IF k \in DOMAIN c.labels THEN c.labels[k] ELSE EmptyStr

\* Name and version as the claim has them extracted.
ExtractedFromImage(c) ==
    LabelValue(c, NameLabel) = EmptyStr /\ c.containers # << >>

ExtractedName(c) ==
    IF ExtractedFromImage(c) THEN parseImageTag(c.containers[1].Image)[1]
    ELSE LabelValue(c, NameLabel)

ExtractedVersion(c) ==
    LET v == IF ExtractedFromImage(c)
             THEN parseImageTag(c.containers[1].Image)[2]
             ELSE LabelValue(c, VersionLabel)
    IN IF v = EmptyStr THEN S_unknown ELSE v

\* C29: name and version are the two labels, except that without a name
\* label and with a container both are those of the first container's
\* image; with the name still empty the app map stays as it is; an empty
\* version counts as "unknown"; otherwise the workload is folded under that
\* name with that version.
C29_WorkloadExtraction ==
    WorkloadStepCall =>
        LET N   == ExtractedName(call)
            V   == ExtractedVersion(call)
            old == call.appMap
            new == call.result
        IN IF N = EmptyStr THEN new = old
           ELSE /\ DOMAIN new = DOMAIN old \cup {N}
                /\ \A n \in DOMAIN old \ {N} : new[n] = old[n]
                /\ N \notin DOMAIN old => new[N] = App(N, V, <<V>>)
                /\ N \in DOMAIN old =>
                      /\ new[N].Name = N
                      /\ V \in SeqRange(new[N].Variants)

\* Without a name label, with a version label and with the image app: in
\* the first of two containers, the app is app at version "unknown".
C29_Witness ==
    /\ WorkloadStepCall
    /\ NameLabel \notin DOMAIN call.labels
    /\ LabelValue(call, VersionLabel) = S_090
    /\ Len(call.containers) = 2
    /\ call.containers[1].Image = S_app \o <<":">>
    /\ call.appMap = EmptyAppMap
    /\ call.result[S_app] = App(S_app, S_unknown, <<S_unknown>>)


\* ------------------------------------------------------------------------
\* discoverAppsFromCRD over lists with malformed objects
\* ------------------------------------------------------------------------

MaxListed == 3

\* The lists of up to MaxListed objects, well-formed and malformed.
ListedObjects ==
    {AppVersionObject(S_myapp, S_100), AppVersionObject(S_myapp, S_090),
     AppVersionObject(S_crdapp, S_100),
     AppVersionObject(EmptyStr, S_100),
     [metadata |-> Str(S_myapp)],
     SpecOf([name |-> Str(S_myapp), version |-> Other(7)])}

CallDiscoverAppsFromCRD ==
    /\ call = NoCall
    /\ \E items \in SeqsUpTo(ListedObjects, MaxListed) :
          LET w == WorldWith([appVersions |-> items, deployments |-> << >>,
                              statefulSets |-> << >>], {})
          IN call' = [fn     |-> "discoverAppsFromCRD",
                      items  |-> items,
                      result |-> discoverAppsFromCRD(DefaultConfig, w, FALSE,
                                                     EmptyAppMap)]
    /\ UNCHANGED progVars

CRDListCall == call.fn = "discoverAppsFromCRD"

IsWellFormed(obj) == obj \in WellFormedObjects

\* What the well-formed objects of a list contribute, in list order
WellFormedContributions(items) ==
    LET kept == SelectSeq(items, IsWellFormed)
    IN [i \in 1..Len(kept) |-> CRDContribution(kept[i])]

\* C30: an AppVersion object without spec, or without a string spec.name or
\* a string spec.version, leaves the app map as it is; a list that holds
\* such objects is folded without error, and its result is that of its
\* well-formed objects alone, those after a malformed one included.
C30_MalformedObjectIsSkipped ==
    /\ (FoldStepCall /\ ~call.wellFormed) => call.result = call.appMap
    /\ CRDListCall =>
          LET kept == WellFormedContributions(call.items)
              new  == call.result.appMap
          IN /\ ~call.result.err
             /\ DOMAIN new = NamesOf(kept)
             /\ \A n \in DOMAIN new :
                   /\ new[n].Name = n
                   /\ new[n].Version = LastOf(VersionsOf(kept, n))
                   /\ new[n].Variants = Dedup(VersionsOf(kept, n))

\* A malformed object stands between my-app and crd-app: both apps are in
\* the result.
C30_Witness ==
    /\ CRDListCall
    /\ Len(call.items) = 3
    /\ IsWellFormed(call.items[1])
    /\ ~IsWellFormed(call.items[2])
    /\ IsWellFormed(call.items[3])
    /\ ~call.result.err
    /\ DOMAIN call.result.appMap = {S_myapp, S_crdapp}


\* ------------------------------------------------------------------------
\* Snapshots across cycles
\* ------------------------------------------------------------------------

\* C31: the nodes a cycle holds are those of its own node list call, the
\* apps those of its own app list calls, and the snapshot it installs is
\* made of these two and of nothing else: nothing of the snapshot that was
\* cached before is in it unless the cycle listed it again.
C31_SnapshotIsOfItsOwnCycle ==
    [][/\ (RefreshNodes /\ discPc' = "apps") =>
              \E items \in cluster.nodeLists : lnodes' = discoverNodes(items)
       /\ RefreshApps =>
              \E world \in cluster.worlds, x \in BOOLEAN :
                  lapps' \in discoverApps(cfg, world, x)
       /\ discPc' = "setUpdatedAt" =>
              cache'.Data = NewClusterInfo(lnodes', lapps')]_vars

\* The snapshot that was cached when the cycle began had two nodes and
\* my-app with two variants; the cycle listed one node and no AppVersion
\* object, and its snapshot has one node and my-app with the one variant.
C31_Witness ==
    /\ discPc = "setUpdatedAt"
    /\ cycleStart.Data # NoData
    /\ Len(cycleStart.Data.Nodes) = 2
    /\ Len(cycleStart.Data.Apps) = 1
    /\ cycleStart.Data.Apps[1].Variants = <<S_100, S_090>>
    /\ Len(cache.Data.Nodes) = 1
    /\ Len(cache.Data.Apps) = 1
    /\ cache.Data.Apps[1].Variants = <<S_090>>


\* ------------------------------------------------------------------------
\* Invariants of the app list
\* ------------------------------------------------------------------------

\* The app lists that calls return: that of discoverApps, and that of the
\* snapshot refreshCache installs.
ReturnsApps ==
    \/ call.fn = "discoverApps"
    \/ call.fn = "refreshCache" /\ call.result.installs

ReturnedApps ==
    IF call.fn = "discoverApps" THEN call.result ELSE call.result.data.Apps

\* C32: no two entries of an app list have the same name, whatever
\* AppVersion objects and workloads, of whatever namespaces and kinds,
\* were folded.
C32_AppNamesUnique ==
    ReturnsApps =>
        \A i, j \in 1..Len(ReturnedApps) :
            i # j => ReturnedApps[i].Name # ReturnedApps[j].Name

\* my-app is named by an AppVersion object, by a deployment and by a
\* stateful set, next to two other apps: three entries.
C32_Witness ==
    /\ MergeCall
    /\ S_myapp \in NamesOf(CRDContributions(call.world))
    /\ Len(VersionsOf(WorkloadContributions(call.world), S_myapp)) >= 2
    /\ Len(VersionsOf(Processed(call), S_myapp)) >= 3
    /\ ResultNames(call.result) = {S_myapp, S_crdapp, S_wlapp}
    /\ Len(call.result) = 3


VersionAmongVariants(a) == a.Variants # << >> /\ InSeq(a.Version, a.Variants)

AllVersionsAmongVariants(m) == \A n \in DOMAIN m : VersionAmongVariants(m[n])

\* C36: every app of an app list has at least one variant and its version
\* is one of its variants; each fold step, of an AppVersion object or of a
\* workload, keeps this of every entry of the map, and a fold of a list
\* of AppVersion objects from the empty map establishes it.
C36_VersionAmongVariants ==
    /\ ReturnsApps =>
          \A i \in 1..Len(ReturnedApps) : VersionAmongVariants(ReturnedApps[i])
    /\ (FoldStepCall \/ WorkloadStepCall) =>
          (AllVersionsAmongVariants(call.appMap)
              => AllVersionsAmongVariants(call.result))
    /\ CRDListCall => AllVersionsAmongVariants(call.result.appMap)

\* discoverApps returns an app with several variants whose version, set by
\* a later AppVersion object, is not the first of them.
C36_Witness ==
    /\ MergeCall
    /\ \E a \in SeqRange(call.result) :
          /\ Len(a.Variants) >= 2
          /\ a.Version # a.Variants[1]
          /\ a.Version = a.Variants[Len(a.Variants)]
          /\ a.Name \in NamesOf(CRDContributions(call.world))


\* C38: no app has the empty string as its name: a fold step, of an
\* AppVersion object or of a workload, adds no entry under the empty name,
\* and neither does the fold of a list of AppVersion objects.
C38_NoEmptyAppName ==
    /\ (FoldStepCall \/ WorkloadStepCall) =>
          (EmptyStr \notin DOMAIN call.appMap
              => EmptyStr \notin DOMAIN call.result)
    /\ CRDListCall => EmptyStr \notin DOMAIN call.result.appMap

\* The workload side does skip the empty name.
C38_WorkloadSkipsEmptyName ==
    WorkloadStepCall =>
        (EmptyStr \notin DOMAIN call.appMap
            => EmptyStr \notin DOMAIN call.result)


\* C34: as long as the last write time of the cache is the zero time, no
\* install having been made, a health check is answered with an error, the
\* probe's if the probe failed and "stale" if it succeeded, never with
\* "healthy".
C34_NoHealthyBeforeFirstInstall ==
    [][\A h \in Checkers :
          ((HealthReturn(h) \/ ProbeFails(h)) /\ cache.UpdatedAt = ZeroTime)
              => /\ resp'[h].status # "healthy"
                 /\ HealthReturn(h) => resp'[h].status = "stale"]_vars

\* The initial refresh is still running and a health check whose probe
\* succeeded has been answered with "stale".
C34_Witness ==
    /\ ~Installed
    /\ cache.UpdatedAt = ZeroTime
    /\ discPc \in {"nodes", "apps", "lock"}
    /\ "h1" \in answeredNow
    /\ resp["h1"] = HealthResponse("stale")

\* C37: the last write time of the cache never decreases.  The installs
\* are the writes of refreshCache, one after the other, each replacing the
\* snapshot of the one before; the cache holds the snapshot of the latest
\* of them and no step puts an earlier one back; and a fetch returns the
\* placeholder or the snapshot the cache holds when it reads.  So of two
\* fetches in sequence the second never returns an earlier install than the
\* first.
C37_InstallsMonotoneForReaders ==
    /\ [][cache'.UpdatedAt >= cache.UpdatedAt]_vars
    /\ [][cache'.Data # cache.Data =>
             /\ RefreshSetData
             /\ mu.writer /\ mu.readers = {}
             /\ cache'.Data = NewClusterInfo(lastData'.Nodes, lastData'.Apps)]_vars
    /\ [](cache.Data # NoData =>
             /\ lastData # NoInstall
             /\ cache.Data = NewClusterInfo(lastData.Nodes, lastData.Apps))
    /\ [][\A c \in Fetchers :
             (FetchReturn(c) /\ ~IsPlaceholder(resp'[c])) =>
                 /\ cache.Data # NoData
                 /\ resp'[c].Nodes = cache.Data.Nodes
                 /\ resp'[c].Apps = cache.Data.Apps]_vars

\* A reader was answered with the snapshot of an install; a later install
\* with other nodes is complete and not expired, and the reader can fetch
\* again.
C37_Witness ==
    /\ Installed /\ discPc = "select" /\ phase = "periodic"
    /\ httpPc = "listening" /\ cpc["f1"] = "idle"
    /\ resp["f1"].kind = "info" /\ ~IsPlaceholder(resp["f1"])
    /\ resp["f1"].Nodes # lastInstall.Nodes
    /\ cache.UpdatedAt = lastInstall.at /\ cache.UpdatedAt > 0
    /\ ~IsExpired(cache, now)
    /\ ENABLED FetchRLock("f1")


\* ------------------------------------------------------------------------
\* The loop on schedule
\* ------------------------------------------------------------------------

\* A TTL of four clock units: the ticker's period is two, and a cycle can
\* take less than a period and yet take time.
LongTTLConfig == [DefaultConfig EXCEPT !.CacheTTL = 4]

InitOnSchedule == InitOf(StableCluster, {LongTTLConfig})

\* The node list call succeeds.
RefreshNodesSucceeds == RefreshNodes /\ discPc' = "apps"

\* The clock advances, but not as far as a whole period past a tick whose
\* cycle has not installed yet: every periodic cycle is over in less than
\* half the TTL after its tick.
AdvanceTimeOnSchedule ==
    /\ (discPc # "returned" /\ phase = "periodic" /\ (tickCh \/ InCycle))
          => now + 1 < nextTick
    /\ AdvanceTime

\* The program with every refresh succeeding and every periodic cycle on
\* schedule.
NextOnSchedule ==
    \/ Spawn
    \/ MainShutdown
    \/ RefreshNodesSucceeds
    \/ RefreshApps
    \/ RefreshLock
    \/ RefreshSetData
    \/ RefreshSetUpdatedAt
    \/ LoopCtxDone
    \/ LoopStopped
    \/ LoopTick
    \/ HttpShutdown
    \/ FetchNext
    \/ HealthNext
    \/ AdvanceTimeOnSchedule

SpecOnSchedule == InitOnSchedule /\ [][NextOnSchedule]_vars

\* The loop has installed and has not returned.
LoopServes == Installed /\ discPc # "returned"

\* C33: with every refresh succeeding and every periodic cycle over in
\* less than half the TTL, from the first install until the loop returns
\* the age of the cache is at most the TTL, no fetch is answered with the
\* empty placeholder and no health check with "stale".
C33_FreshWhileOnSchedule ==
    /\ [](LoopServes => now - lastInstall.at <= cfg.CacheTTL)
    /\ [][LoopServes =>
             /\ \A f \in Fetchers :
                   FetchReturn(f) => /\ ~IsPlaceholder(resp'[f])
                                     /\ Carries(resp'[f], lastData)
             /\ \A h \in Checkers :
                   /\ HealthReturn(h) => resp'[h].status = "healthy"
                   /\ ProbeFails(h) => resp'[h].status = "connectivity"]_vars

\* A periodic cycle has taken time and installed one clock unit after its
\* tick; three units after the install before it was made, a fetch is
\* answered with the snapshot and a health check with "healthy".
C33_Witness ==
    /\ LoopServes
    /\ phase = "periodic"
    /\ discPc = "lock"
    /\ now - lastInstall.at = 3
    /\ answeredNow = {"f1", "h1"}
    /\ ~IsPlaceholder(resp["f1"])
    /\ resp["h1"] = HealthResponse("healthy")

\* The calls, one at a time.
NextCalls ==
    \/ CallNewClusterDiscovery
    \/ CallDiscoverApps
    \/ CallDiscoverAppsSelected
    \/ CallRefreshCache
    \/ CallGetNodeRole
    \/ CallDiscoverAppsListCalls
    \/ CallParseImageTag
    \/ CallProcessAppVersion
    \/ CallProcessWorkloadLabels
    \/ CallDiscoverAppsFromCRD

SpecCalls == InitStable /\ [][NextCalls]_vars

====
